---- MODULE Spec2Model ----
(***************************************************************************)
(* Ballistic Core Engine (BCE): the orchestrator BCE_Engine with the       *)
(* Atmosphere, AHRSManager, MagCalibration and BallisticSolver objects it  *)
(* owns, as a state machine over the public API (setters and update).      *)
(*                                                                         *)
(* Numbers.  The code computes in IEEE single precision; the model uses    *)
(* integers in fixed units, named at each definition:                      *)
(*   ranges m, sight height mm, drop um, velocities m/s, angles 1e-7 rad,  *)
(*   pressure Pa, temperature degC (Kelvin in centi-K), humidity and       *)
(*   confidence percent, BC in 1/1000, air density g/m^3, speed of sound   *)
(*   cm/s, accelerations cm/s^2, field strength uT, timestamps us.         *)
(* NaN and the two infinities are three reserved integers; every           *)
(* comparison the code makes on a value that may be non-finite goes        *)
(* through FLt/FGt/FLe/FGe, which are false on NaN as in IEEE 754.         *)
(***************************************************************************)
EXTENDS Integers, Sequences, FiniteSets, TLC

\* ------------------------------------------------------------------------
\* IEEE-754 special values and comparisons
\* ------------------------------------------------------------------------
PosInf == 10^9
NegInf == -(10^9)
NaN    == -(10^9) - 1

isfinite(x) == x # NaN /\ x # PosInf /\ x # NegInf
isnan(x)    == x = NaN

FLt(a, b) == a # NaN /\ b # NaN /\ a < b
FGt(a, b) == a # NaN /\ b # NaN /\ a > b
FLe(a, b) == a # NaN /\ b # NaN /\ a <= b
FGe(a, b) == a # NaN /\ b # NaN /\ a >= b

\* a + b for a possibly non-finite a and b.
FAdd(a, b) ==
    IF a = NaN \/ b = NaN THEN NaN
    ELSE IF a = PosInf THEN (IF b = NegInf THEN NaN ELSE PosInf)
    ELSE IF a = NegInf THEN (IF b = PosInf THEN NaN ELSE NegInf)
    ELSE IF b = PosInf \/ b = NegInf THEN b
    ELSE a + b

Abs(x) == IF x < 0 THEN -x ELSE x

\* Largest r in lo..hi with r*r <= n (std::sqrt on the integer grid).
RECURSIVE SqrtSearch(_, _, _)
SqrtSearch(n, lo, hi) ==
    IF lo >= hi THEN lo
    ELSE LET mid == (lo + hi + 1) \div 2
         IN IF mid * mid <= n THEN SqrtSearch(n, mid, hi)
                              ELSE SqrtSearch(n, lo, mid - 1)

ISqrt(n) == SqrtSearch(n, 0, 40000)

\* ------------------------------------------------------------------------
\* Program constants (bce_config.h, bce_types.h, bce_engine.cpp)
\* ------------------------------------------------------------------------
BCE_MAX_RANGE_M            == 2500       \* m
BCE_DEFAULT_ALTITUDE_M     == 0          \* m
BCE_DEFAULT_PRESSURE_PA    == 101325     \* Pa
BCE_DEFAULT_TEMPERATURE_C  == 15         \* degC
BCE_DEFAULT_HUMIDITY       == 50         \* percent (0.50)
BCE_STD_PRESSURE_PA        == 101325     \* Pa
BCE_STD_AIR_DENSITY        == 1225       \* g/m^3 (1.2250 kg/m^3)
BCE_GRAVITY                == 9807       \* um/s per ms (9.80665 m/s^2)
BCE_LRF_STALE_US           == 2000000    \* us
BCE_LRF_MIN_CONFIDENCE     == 50         \* percent (0.50)
BCE_LRF_FILTER_ALPHA       == 20         \* percent (0.2)
BCE_MIN_VELOCITY           == 30         \* m/s
BCE_BALLISTIC_DRAG_CONSTANT == 900
BCE_EXTERNAL_REFERENCE_DRAG_SCALE == 84  \* percent (0.84)
BCE_DEFAULT_DRAG_REFERENCE_SCALE  == 100 \* percent (1.0)
BCE_MAX_SOLVER_ITERATIONS  == 500000
BCE_ZERO_TOLERANCE_M       == 1000       \* um (0.001 m)
BCE_ZERO_MAX_ITERATIONS    == 50
BCE_ZERO_RECOMPUTE_BC_FACTOR_DELTA == 15 \* 1/10000 (0.0015)
BCE_ZERO_RECOMPUTE_DENSITY_DELTA   == 5  \* g/m^3 (0.005 kg/m^3)
BCE_ZERO_RECOMPUTE_SOS_DELTA       == 75 \* cm/s (0.75 m/s)
BCE_AHRS_STATIC_THRESHOLD  == 500        \* (cm/s^2)^2 (0.05 (m/s^2)^2)
BCE_MAG_MIN_FIELD_UT       == 20         \* uT
BCE_MAG_MAX_FIELD_UT       == 70         \* uT
BCE_OMEGA_EARTH            == 25         \* 7.2921e-5 rad/s, as 1/100 MOA per s
ZERO_BRACKET               == 872665     \* 1e-7 rad (5 degrees)

\* ------------------------------------------------------------------------
\* Bounds of the model
\* ------------------------------------------------------------------------
\* Length of the static-detection ring buffer; stands for
\* BCE_AHRS_STATIC_WINDOW (64), scaled down to keep the buffer enumerable.
StaticWindow == 2
\* Downrange distance the integrator advances per iteration, in m; stands
\* for the adaptive step of at most BCE_MAX_STEP_DISTANCE_M (0.25 m).
StepM == 100

\* ------------------------------------------------------------------------
\* Fault and diagnostic bits (bce_types.h); a bitmap is the set of its bits
\* ------------------------------------------------------------------------
HardFaults == {"NO_RANGE", "NO_BULLET", "NO_MV", "NO_BC",
               "AHRS_UNSTABLE", "ZERO_UNSOLVABLE"}

\* ------------------------------------------------------------------------
\* Atmosphere (atmo/atmosphere.cpp)
\* ------------------------------------------------------------------------
BcOne == 10000   \* 1.0 as a BC factor, in 1/10000

\* 611.21 * exp((18.678 - T/234.5) * (T / (257.14 + T))) in Pa, tabulated at
\* the temperatures below and interpolated linearly between them.
BuckTable == << <<-80, 0>>, <<-40, 19>>, <<0, 611>>, <<15, 1705>>,
                <<25, 3169>>, <<35, 5627>>, <<50, 12349>>, <<80, 47410>> >>

RECURSIVE BuckFrom(_, _)
BuckFrom(t, i) ==
    IF i >= Len(BuckTable) THEN BuckTable[Len(BuckTable)][2]
    ELSE IF t <= BuckTable[i][1] THEN BuckTable[i][2]
    ELSE IF t < BuckTable[i + 1][1]
         THEN BuckTable[i][2] +
              ((t - BuckTable[i][1]) * (BuckTable[i + 1][2] - BuckTable[i][2]))
                  \div (BuckTable[i + 1][1] - BuckTable[i][1])
    ELSE BuckFrom(t, i + 1)

BuckSat(t) == BuckFrom(t, 1)

\* Atmosphere::correctBC.  bc_standard and the result are in units of
\* 1/one; the four factors are in 1/10000.
correctBC(a, bc_standard, one) ==
    LET alt_ft   == (a.altitude_m * 328084) \div 100000
        FA0      == 10000 - (alt_ft * 3158) \div 10000
        FA       == IF FA0 < 5000 THEN 5000 ELSE FA0
        temp_f10 == a.temperature_c * 18 + 320
        FT       == ((temp_f10 - 590) * 1000) \div 519
        inhg5    == (a.pressure_pa * 2953) \div 100
        FP       == ((2953000 - inhg5) * 10) \div 2953
        FR       == 10000 + (2 * (a.humidity - 50)) \div 10
        bc1      == (bc_standard * FA) \div 10000
        bc2      == (bc1 * (10000 + FT - FP)) \div 10000
        bc3      == (bc2 * FR) \div 10000
    IN IF bc3 < one \div 100 THEN one \div 100 ELSE bc3

\* Atmosphere::recompute
recompute(a) ==
    LET prev_density   == a.air_density
        prev_sos       == a.speed_of_sound
        prev_bc_factor == a.last_bc_factor
        diag == (IF ~a.has_baro_pressure /\ ~a.has_override_pressure
                 THEN {"DEFAULT_PRESSURE"} ELSE {})
                \cup (IF ~a.has_baro_temperature /\ ~a.has_override_temp
                      THEN {"DEFAULT_TEMP"} ELSE {})
                \cup (IF ~a.has_baro_humidity /\ ~a.has_override_humidity
                      THEN {"DEFAULT_HUMIDITY"} ELSE {})
                \cup (IF ~a.has_override_altitude
                      THEN {"DEFAULT_ALTITUDE"} ELSE {})
        Tk0    == a.temperature_c * 100 + 27315
        Tk     == IF Tk0 < 100 THEN 100 ELSE Tk0
        p_bad  == ~isfinite(a.pressure_pa) \/ FLt(a.pressure_pa, 1000)
        p      == IF p_bad THEN 1000 ELSE a.pressure_pa
        h_nf   == ~isfinite(a.humidity)
        h0     == IF h_nf THEN BCE_DEFAULT_HUMIDITY ELSE a.humidity
        h_lo   == h0 < 0
        h1     == IF h_lo THEN 0 ELSE h0
        h_hi   == h1 > 100
        h      == IF h_hi THEN 100 ELSE h1
        e_sat   == BuckSat(a.temperature_c)
        e_vapor == (h * e_sat) \div 100
        Tv0    == Tk + (((Tk * 378) \div 1000) * ((e_vapor * 1000) \div p))
                           \div 1000
        tv_bad == Tv0 < 100
        Tv     == IF tv_bad THEN 100 ELSE Tv0
        density == (((p * 1000) \div 28705) * 10000) \div Tv
        sos     == (2005 * ISqrt(Tv * 100)) \div 100
        a1 == [a EXCEPT !.diag_flags = diag,
                        !.had_invalid_input =
                            @ \/ p_bad \/ h_nf \/ h_lo \/ h_hi \/ tv_bad,
                        !.air_density = density,
                        !.speed_of_sound = sos]
        current_bc_factor == correctBC(a1, BcOne, BcOne)
        changed ==
            \/ Abs(current_bc_factor - prev_bc_factor)
                   >= BCE_ZERO_RECOMPUTE_BC_FACTOR_DELTA
            \/ Abs(density - prev_density) >= BCE_ZERO_RECOMPUTE_DENSITY_DELTA
            \/ Abs(sos - prev_sos) >= BCE_ZERO_RECOMPUTE_SOS_DELTA
    IN [a1 EXCEPT !.zero_recompute_hint = @ \/ changed,
                  !.last_bc_factor = current_bc_factor]

\* Atmosphere::init.  The density and speed of sound that recompute reads as
\* "previous" are the member initialisers of atmosphere.h.
AtmoInit ==
    LET a0 == [pressure_pa |-> BCE_DEFAULT_PRESSURE_PA,
               temperature_c |-> BCE_DEFAULT_TEMPERATURE_C,
               humidity |-> BCE_DEFAULT_HUMIDITY,
               altitude_m |-> BCE_DEFAULT_ALTITUDE_M,
               air_density |-> BCE_STD_AIR_DENSITY,
               speed_of_sound |-> 34029,
               baro_offset_pa |-> 0,
               has_baro_pressure |-> FALSE,
               has_baro_temperature |-> FALSE,
               has_baro_humidity |-> FALSE,
               has_override_altitude |-> FALSE,
               has_override_pressure |-> FALSE,
               has_override_temp |-> FALSE,
               has_override_humidity |-> FALSE,
               had_invalid_input |-> FALSE,
               zero_recompute_hint |-> FALSE,
               last_bc_factor |-> BcOne,
               diag_flags |-> {}]
        a1 == recompute(a0)
    IN [a1 EXCEPT !.last_bc_factor = correctBC(a1, BcOne, BcOne),
                  !.zero_recompute_hint = FALSE]

\* Atmosphere::updateFromBaro.  humidity < 0 means "not provided".
updateFromBaro(a, pressure_pa, temperature_c, humidity) ==
    LET cp0    == FAdd(pressure_pa, a.baro_offset_pa)
        cp_nf  == ~isfinite(cp0)
        cp1    == IF cp_nf THEN BCE_DEFAULT_PRESSURE_PA ELSE cp0
        cp_lo  == cp1 < 1000
        cp2    == IF cp_lo THEN 1000 ELSE cp1
        cp_hi  == cp2 > 120000
        corrected_pressure == IF cp_hi THEN 120000 ELSE cp2
        t_nf   == ~isfinite(temperature_c)
        t1     == IF t_nf THEN BCE_DEFAULT_TEMPERATURE_C ELSE temperature_c
        t_lo   == t1 < -80
        t2     == IF t_lo THEN -80 ELSE t1
        t_hi   == t2 > 80
        safe_temp == IF t_hi THEN 80 ELSE t2
        h_in   == FGe(humidity, 0) /\ FLe(humidity, 100)
        h_out  == ~h_in /\ FGe(humidity, 0)
        hum    == IF h_in THEN humidity
                  ELSE IF h_out
                       THEN IF isfinite(humidity)
                            THEN IF humidity < 0 THEN 0
                                 ELSE IF humidity > 100 THEN 100
                                 ELSE a.humidity
                            ELSE BCE_DEFAULT_HUMIDITY
                  ELSE a.humidity
    IN recompute([a EXCEPT
           !.had_invalid_input =
               cp_nf \/ cp_lo \/ cp_hi \/ t_nf \/ t_lo \/ t_hi \/ h_out,
           !.has_baro_pressure = TRUE,
           !.has_baro_temperature = TRUE,
           !.pressure_pa = corrected_pressure,
           !.temperature_c = safe_temp,
           !.has_baro_humidity = @ \/ h_in \/ h_out,
           !.humidity = hum])

\* applyDefaults as it would be without its closing recompute().
applyDefaultsNoRecompute(a, ovr) ==
    [a EXCEPT
        !.has_override_altitude = @ \/ ovr.use_altitude,
        !.altitude_m = IF ovr.use_altitude THEN ovr.altitude_m ELSE @,
        !.has_override_pressure = @ \/ ovr.use_pressure,
        !.pressure_pa = IF ovr.use_pressure /\ ~a.has_baro_pressure
                        THEN ovr.pressure_pa ELSE @,
        !.has_override_temp = @ \/ ovr.use_temperature,
        !.temperature_c = IF ovr.use_temperature /\ ~a.has_baro_temperature
                          THEN ovr.temperature_c ELSE @,
        !.has_override_humidity = @ \/ ovr.use_humidity,
        !.humidity = IF ovr.use_humidity /\ ~a.has_baro_humidity
                     THEN ovr.humidity_fraction ELSE @]

\* Atmosphere::applyDefaults
applyDefaults(a, ovr) ==
    recompute([a EXCEPT
        !.has_override_altitude = @ \/ ovr.use_altitude,
        !.altitude_m = IF ovr.use_altitude THEN ovr.altitude_m ELSE @,
        !.has_override_pressure = @ \/ ovr.use_pressure,
        !.pressure_pa = IF ovr.use_pressure /\ ~a.has_baro_pressure
                        THEN ovr.pressure_pa ELSE @,
        !.has_override_temp = @ \/ ovr.use_temperature,
        !.temperature_c = IF ovr.use_temperature /\ ~a.has_baro_temperature
                          THEN ovr.temperature_c ELSE @,
        !.has_override_humidity = @ \/ ovr.use_humidity,
        !.humidity = IF ovr.use_humidity /\ ~a.has_baro_humidity
                     THEN ovr.humidity_fraction ELSE @])

\* Atmosphere::calibrateBaro
atmoCalibrateBaro(a) ==
    recompute([a EXCEPT !.baro_offset_pa =
                   BCE_STD_PRESSURE_PA - (a.pressure_pa - a.baro_offset_pa)])

\* ------------------------------------------------------------------------
\* Attitude (ahrs/ahrs_manager.cpp, ahrs/madgwick.cpp, ahrs/mahony.cpp)
\* ------------------------------------------------------------------------
\* A quaternion is abstracted to the pitch it encodes, in mrad (roll and yaw
\* stay 0: the frames of the model accelerate in the x-z plane and do not
\* rotate).  QNaN is the quaternion with NaN components.
QIdentity == [pitch |-> 0]
QNaN      == [pitch |-> NaN]

\* MadgwickFilter::update / MahonyFilter::update.  Both read the gyro and the
\* accelerometer always and the magnetometer only under use_mag; a NaN among
\* the values read makes every component NaN.  The corrective step is taken
\* to its fixed point: the attitude the accelerometer implies.
filterUpdate(q, ax, az, g, m, use_mag, dt) ==
    IF \/ ~isfinite(ax) \/ ~isfinite(az) \/ ~isfinite(g)
       \/ (use_mag /\ ~isfinite(m))
       \/ ~isfinite(q.pitch)
    THEN QNaN
    ELSE IF ISqrt(ax * ax + az * az) > 0 /\ az # 0
         THEN [pitch |-> (ax * 1000) \div az]
         ELSE q

activeQ(ah) == IF ah.algorithm = "MAHONY" THEN ah.mahony_q ELSE ah.madgwick_q

Sum(seq) == LET RECURSIVE S(_)
                S(i) == IF i = 0 THEN 0 ELSE seq[i] + S(i - 1)
            IN S(Len(seq))

SumSq(seq) == LET RECURSIVE S(_)
                  S(i) == IF i = 0 THEN 0 ELSE seq[i] * seq[i] + S(i - 1)
              IN S(Len(seq))

\* AHRSManager::updateStaticDetection.  var < threshold is decided exactly:
\* W * sum(x^2) - sum(x)^2 < threshold * W^2.
updateStaticDetection(ah, ax, az) ==
    LET mag == ISqrt(ax * ax + az * az)
        buf == [ah.accel_mag_buf EXCEPT ![ah.buf_index + 1] = mag]
        idx == (ah.buf_index + 1) % StaticWindow
        a1  == [ah EXCEPT !.accel_mag_buf = buf, !.buf_index = idx]
    IN IF ah.sample_count < StaticWindow
       THEN [a1 EXCEPT !.sample_count = @ + 1, !.is_static = FALSE]
       ELSE [a1 EXCEPT !.is_static =
                 StaticWindow * SumSq(buf) - Sum(buf) * Sum(buf)
                     < BCE_AHRS_STATIC_THRESHOLD * StaticWindow * StaticWindow]

\* AHRSManager::update
ahrsUpdate(ah, ax, az, g, m, use_mag, dt) ==
    LET bx == ax - ah.accel_bias
        bz == az - ah.accel_bias
        bg == g - ah.gyro_bias
        q1 == filterUpdate(activeQ(ah), bx, bz, bg, m, use_mag, dt)
        a1 == IF ah.algorithm = "MAHONY"
              THEN [ah EXCEPT !.mahony_q = q1]
              ELSE [ah EXCEPT !.madgwick_q = q1]
    IN updateStaticDetection(a1, bx, bz)

\* AHRSManager::isStable
isStable(ah) == ah.sample_count >= StaticWindow /\ ah.is_static

\* The member initialisers of AHRSManager (ahrs_manager.h)
AhrsConstructed ==
            [algorithm |-> "MADGWICK",
             madgwick_q |-> QIdentity,
             mahony_q |-> QIdentity,
             accel_mag_buf |-> [i \in 1..StaticWindow |-> 0],
             buf_index |-> 0,
             sample_count |-> 0,
             is_static |-> FALSE,
             accel_bias |-> 0,
             gyro_bias |-> 0]

\* AHRSManager::init: everything but the selected algorithm is reset.
ahrsInit(ah) == [AhrsConstructed EXCEPT !.algorithm = ah.algorithm]

\* ------------------------------------------------------------------------
\* Magnetometer (mag/mag_calibration.cpp); one axis, the soft-iron matrix is
\* one gain in percent, the heading in whole degrees
\* ------------------------------------------------------------------------
MagInit == [hard_iron |-> 0, soft_iron |-> 100, declination_deg |-> 0,
            is_disturbed |-> FALSE]

\* MagCalibration::apply: the calibrated field and the disturbance verdict.
magApply(mg, m) ==
    LET c == (mg.soft_iron * (m - mg.hard_iron)) \div 100
        field_mag == Abs(c)
    IN [m |-> c,
        is_disturbed |-> field_mag < BCE_MAG_MIN_FIELD_UT
                         \/ field_mag > BCE_MAG_MAX_FIELD_UT]

\* MagCalibration::computeHeading for the yaw of the model's frames (0).
computeHeading(mg) == mg.declination_deg % 360

\* ------------------------------------------------------------------------
\* Drag (drag/drag_model.cpp)
\* ------------------------------------------------------------------------
\* The G1 curve as <<Mach in 1/100, Cd in 1/1000>> points.
G1_TABLE == << <<0, 263>>, <<80, 255>>, <<100, 481>>, <<120, 639>>,
               <<140, 663>>, <<200, 593>>, <<300, 513>> >>

\* DragModelLookup::interpolate
RECURSIVE interpolateFrom(_, _, _)
interpolateFrom(table, mach, lo) ==
    IF mach >= table[lo + 1][1] /\ lo + 1 < Len(table)
    THEN interpolateFrom(table, mach, lo + 1)
    ELSE table[lo][2] +
         ((mach - table[lo][1]) * (table[lo + 1][2] - table[lo][2]))
             \div (table[lo + 1][1] - table[lo][1])

interpolate(table, mach) ==
    IF mach <= table[1][1] THEN table[1][2]
    ELSE IF mach >= table[Len(table)][1] THEN table[Len(table)][2]
    ELSE interpolateFrom(table, mach, 1)

\* DragModelLookup::getDeceleration, in cm/s^2.
getDeceleration(velocity_ms, speed_of_sound, bc_corrected, air_density) ==
    IF velocity_ms < 1 \/ bc_corrected < 1 THEN 0
    ELSE LET mach == (velocity_ms * 10000) \div speed_of_sound
             cd   == interpolate(G1_TABLE, IF mach < 0 THEN 0 ELSE mach)
             cd_density == (cd * air_density) \div BCE_STD_AIR_DENSITY
         IN ((cd_density * velocity_ms * velocity_ms) \div bc_corrected)
                 \div (BCE_BALLISTIC_DRAG_CONSTANT \div 100)

\* ------------------------------------------------------------------------
\* Solver (solver/solver.cpp)
\* ------------------------------------------------------------------------
\* SolverParams: bc (1/1000), muzzle_velocity_ms, sight_height (mm),
\* air_density (g/m^3), speed_of_sound (cm/s), drag_reference_scale (%),
\* launch_angle (1e-7 rad), target_range_m.

\* The clamp of drag_reference_scale in computeAcceleration.
dragScale(scale) ==
    LET s0 == IF ~isfinite(scale) \/ scale <= 0 THEN 100 ELSE scale
    IN IF s0 < 20 THEN 20 ELSE IF s0 > 200 THEN 200 ELSE s0

\* integrateToRange after its loop: the drop is NaN when the bullet did not
\* reach range_m.  x and steps are the locals x and iteration as the loop
\* left them.
endPoint(range_m, x, y, v, t, iteration) ==
    [drop        |-> IF FLt(x, range_m) THEN NaN ELSE y,
     velocity_ms |-> v,
     tof_ms      |-> t,
     x           |-> x,
     steps       |-> iteration]

\* The loop condition as it would be without the iteration bound.
integratingUnbounded(x, range_m, iteration) == FLt(x, range_m)

\* The loop condition of integrateToRange.
integrating(x, range_m, iteration) ==
    FLt(x, range_m) /\ iteration < BCE_MAX_SOLVER_ITERATIONS

\* The integration loop of integrateToRange.  One iteration advances the
\* bullet StepM metres down range in dt = StepM / v (ms), loses decel * dt of
\* speed, and moves the vertical state (y in um, vy in um/s) under gravity
\* and the vertical share of the drag; y advances by the mean of the vertical
\* velocity over the step.
RECURSIVE trajectory(_, _, _, _, _, _, _, _)
trajectory(params, range_m, x, y, v, vy, t, iteration) ==
    IF ~integrating(x, range_m, iteration)
    THEN endPoint(range_m, x, y, v, t, iteration)
    ELSE IF v < BCE_MIN_VELOCITY
    THEN endPoint(range_m, x, y, v, t, iteration + 1)
    ELSE LET dt    == (StepM * 1000) \div v
             decel == (getDeceleration(v, params.speed_of_sound, params.bc,
                                       params.air_density)
                          * dragScale(params.drag_reference_scale)) \div 100
             dv    == (decel * dt) \div 100000
             vy1   == vy - BCE_GRAVITY * dt - (vy \div v) * dv
             vym   == (vy + vy1) \div 2
         IN trajectory(params, range_m, x + StepM,
                       y + (vym \div 1000) * dt + ((vym % 1000) * dt) \div 1000,
                       v - dv, vy1, t + dt, iteration + 1)

\* BallisticSolver::integrateToRange: drop, remaining velocity and time of
\* flight at range_m.
integrateToRange(params, range_m) ==
    trajectory(params, range_m, 0, 0, params.muzzle_velocity_ms,
               (params.muzzle_velocity_ms * params.launch_angle) \div 10,
               0, 0)

\* solveZeroAngle after its loop: the final check of an unconverged search.
zeroFinal(best_angle, drop, target_drop) ==
    IF ~isnan(drop) /\ Abs(drop - target_drop) < BCE_ZERO_TOLERANCE_M
    THEN best_angle
    ELSE NaN

\* The loop counter of solveZeroAngle after an iteration.  An iteration that
\* leaves lo, hi, best_angle and the launch angle as it found them is repeated
\* unchanged by every iteration that remains, so the count goes to its end.
zeroIter(settled, i) == IF settled THEN BCE_ZERO_MAX_ITERATIONS ELSE i + 1

\* The bisection loop of solveZeroAngle; `angle` is params.launch_angle_rad
\* as the last iteration left it.  zeroStep is the body of one iteration,
\* given the drop at the midpoint.  The loop yields the angle solveZeroAngle
\* returns and the number of iterations it began, each of them with one
\* integration; `final` says whether the integration after the loop was made.
RECURSIVE zeroSearch(_, _, _, _, _, _, _)
zeroStep(params, zero_range_m, lo, hi, best_angle, angle, mid, drop, i) ==
    IF isnan(drop)
    THEN zeroSearch(params, zero_range_m, mid, hi, best_angle, mid,
                    zeroIter(lo = mid /\ angle = mid, i))
    ELSE IF Abs(drop + params.sight_height * 1000) < BCE_ZERO_TOLERANCE_M
    THEN [angle |-> mid, iterations |-> i + 1, final |-> FALSE]
    ELSE IF drop > 0 - params.sight_height * 1000
    THEN zeroSearch(params, zero_range_m, lo, mid, mid, mid,
                    zeroIter(hi = mid /\ best_angle = mid /\ angle = mid, i))
    ELSE zeroSearch(params, zero_range_m, mid, hi, mid, mid,
                    zeroIter(lo = mid /\ best_angle = mid /\ angle = mid, i))

zeroSearch(params, zero_range_m, lo, hi, best_angle, angle, i) ==
    IF ~(i < BCE_ZERO_MAX_ITERATIONS)
    THEN [angle |-> zeroFinal(best_angle,
                       integrateToRange([params EXCEPT !.launch_angle = angle],
                                        zero_range_m).drop,
                       0 - params.sight_height * 1000),
          iterations |-> i, final |-> TRUE]
    ELSE zeroStep(params, zero_range_m, lo, hi, best_angle, angle,
                  (lo + hi) \div 2,
                  integrateToRange(
                      [params EXCEPT !.launch_angle = (lo + hi) \div 2],
                      zero_range_m).drop,
                  i)

\* BallisticSolver::solveZeroAngle: the zero angle, or NaN if unsolvable.
solveZeroAngle(params, zero_range_m) ==
    IF FLt(zero_range_m, 1) \/ FGt(zero_range_m, BCE_MAX_RANGE_M) THEN NaN
    ELSE zeroSearch(params, zero_range_m, 0 - ZERO_BRACKET, ZERO_BRACKET,
                    0, params.launch_angle, 0).angle

\* BallisticSolver::integrate, from the end point of the integration (spin
\* drift is 0: the bullets of the model have no twist rate).
solverResult(r) ==
    IF isnan(r.drop)
    THEN [valid |-> FALSE, drop_at_target |-> 0, tof_ms |-> 0,
          velocity_at_target_ms |-> 0,
          coriolis_wind_moa |-> 0, coriolis_elev_moa |-> 0]
    ELSE [valid |-> TRUE, drop_at_target |-> r.drop, tof_ms |-> r.tof_ms,
          velocity_at_target_ms |-> r.velocity_ms,
          coriolis_wind_moa |-> 0, coriolis_elev_moa |-> 0]

\* sin and cos of an angle in whole degrees, in 1/1000, at the angles the
\* model uses.
SinMilli(deg) ==
    IF deg = 0 THEN 0 ELSE IF deg = 45 THEN 707 ELSE IF deg = 90 THEN 1000
    ELSE IF deg = -45 THEN -707 ELSE 0

CosMilli(deg) ==
    IF deg = 0 THEN 1000 ELSE IF deg = 45 \/ deg = -45 THEN 707 ELSE 0

\* omega * tof * RAD_TO_MOA in 1/100 MOA: 7.2921e-5 * 3437.75 = 0.2507 MOA
\* per second of flight.
coriolisMoa(tof_ms) == (BCE_OMEGA_EARTH * tof_ms) \div 1000

\* BallisticSolver::integrate: the Coriolis and Eotvos terms of a valid
\* result.
coriolisApplied(params, result) ==
    IF result.valid /\ params.coriolis_enabled
    THEN [result EXCEPT
            !.coriolis_wind_moa =
                (coriolisMoa(result.tof_ms) * SinMilli(params.coriolis_lat))
                    \div 1000,
            !.coriolis_elev_moa =
                (((coriolisMoa(result.tof_ms) * CosMilli(params.coriolis_lat))
                    \div 1000) * SinMilli(params.azimuth)) \div 1000]
    ELSE result

\* BallisticSolver::integrate
integrate(params) ==
    IF params.target_range_m < 1 \/ params.target_range_m > BCE_MAX_RANGE_M
    THEN [valid |-> FALSE, drop_at_target |-> 0, tof_ms |-> 0,
          velocity_at_target_ms |-> 0,
          coriolis_wind_moa |-> 0, coriolis_elev_moa |-> 0]
    ELSE coriolisApplied(params,
             solverResult(integrateToRange(params, params.target_range_m)))

\* ------------------------------------------------------------------------
\* Engine (engine/bce_engine.h, engine/bce_engine.cpp)
\* ------------------------------------------------------------------------
\* The member initialisers of Atmosphere (atmosphere.h)
AtmoConstructed ==
    [pressure_pa |-> BCE_DEFAULT_PRESSURE_PA,
     temperature_c |-> BCE_DEFAULT_TEMPERATURE_C,
     humidity |-> BCE_DEFAULT_HUMIDITY,
     altitude_m |-> BCE_DEFAULT_ALTITUDE_M,
     air_density |-> BCE_STD_AIR_DENSITY,
     speed_of_sound |-> 34029,
     baro_offset_pa |-> 0,
     has_baro_pressure |-> FALSE,
     has_baro_temperature |-> FALSE,
     has_baro_humidity |-> FALSE,
     has_override_altitude |-> FALSE,
     has_override_pressure |-> FALSE,
     has_override_temp |-> FALSE,
     has_override_humidity |-> FALSE,
     had_invalid_input |-> FALSE,
     zero_recompute_hint |-> FALSE,
     last_bc_factor |-> BcOne,
     diag_flags |-> {}]

\* A zero-filled FiringSolution, BulletProfile, ZeroConfig and
\* BCE_DefaultOverrides (the fields the model observes).
SolutionZero ==
    [solution_mode |-> "IDLE", fault_flags |-> {}, defaults_active |-> {},
     hold_elevation_moa |-> 0, range_m |-> 0, tof_ms |-> 0,
     velocity_at_target_ms |-> 0,
     hold_windage_moa |-> 0, coriolis_windage_moa |-> 0,
     coriolis_elevation_moa |-> 0]

BulletZero ==
    [bc |-> 0, muzzle_velocity_ms |-> 0, barrel_length_in |-> 0,
     mv_adjustment_factor |-> 0]

ZeroConfigZero == [zero_range_m |-> 0, sight_height_mm |-> 0]

OverridesZero ==
    [use_altitude |-> FALSE, altitude_m |-> 0,
     use_pressure |-> FALSE, pressure_pa |-> 0,
     use_temperature |-> FALSE, temperature_c |-> 0,
     use_humidity |-> FALSE, humidity_fraction |-> 0,
     use_latitude |-> FALSE, latitude_deg |-> 0,
     use_wind |-> FALSE, wind_speed_ms |-> 0, wind_heading_deg |-> 0]

\* A BoresightOffset of zero, in 1/100 MOA.
OffsetZero == [vertical_moa |-> 0, horizontal_moa |-> 0]

\* The static engine object as its constructors leave it.
EngineConstructed ==
    [ahrs |-> AhrsConstructed,
     mag |-> MagInit,
     atmo |-> AtmoConstructed,
     mode |-> "IDLE",
     fault_flags |-> {},
     diag_flags |-> {},
     solution |-> SolutionZero,
     bullet |-> BulletZero,
     has_bullet |-> FALSE,
     zero |-> ZeroConfigZero,
     has_zero |-> FALSE,
     zero_angle_rad |-> 0,
     zero_dirty |-> TRUE,
     lrf_range_m |-> 0,
     lrf_range_filtered_m |-> 0,
     lrf_timestamp_us |-> 0,
     has_range |-> FALSE,
     lrf_quaternion |-> QIdentity,
     has_latitude |-> FALSE,
     latitude_deg |-> 0,
     boresight |-> OffsetZero,
     reticle |-> OffsetZero,
     wind_is_set |-> FALSE,
     wind_speed_ms |-> 0,
     wind_heading_deg |-> 0,
     overrides |-> OverridesZero,
     has_overrides |-> FALSE,
     last_gyro |-> 0,
     last_imu_timestamp_us |-> 0,
     first_update |-> TRUE,
     had_invalid_sensor_input |-> FALSE,
     external_reference_mode |-> FALSE]

\* BCE_Engine::init.  The filtered range and the wind are not among the
\* members it assigns.
init(e) ==
    [EngineConstructed EXCEPT
        !.ahrs = ahrsInit(e.ahrs),
        !.atmo = AtmoInit,
        !.lrf_range_filtered_m = e.lrf_range_filtered_m,
        !.wind_is_set = e.wind_is_set,
        !.wind_speed_ms = e.wind_speed_ms,
        !.wind_heading_deg = e.wind_heading_deg]

\* The Coriolis parameters as they would be if the stored latitude were used
\* whether or not it is set.
coriolisParamsAlways(e) ==
    [enabled |-> TRUE, lat |-> e.latitude_deg,
     azimuth |-> computeHeading(e.mag)]

\* buildSolverParams: the Coriolis parameters, zero-filled when the latitude
\* is unset.
coriolisParams(e) ==
    IF e.has_latitude
    THEN [enabled |-> TRUE, lat |-> e.latitude_deg,
          azimuth |-> computeHeading(e.mag)]
    ELSE [enabled |-> FALSE, lat |-> 0, azimuth |-> 0]

\* BCE_Engine::buildSolverParams
buildSolverParams(e, range_m) ==
    [bc |-> correctBC(e.atmo, e.bullet.bc, 1000),
     muzzle_velocity_ms |->
         e.bullet.muzzle_velocity_ms
           + ((e.bullet.barrel_length_in - 24)
                 * Abs(e.bullet.mv_adjustment_factor) * 3048) \div 10000,
     sight_height |-> IF e.has_zero THEN e.zero.sight_height_mm ELSE 0,
     air_density |-> e.atmo.air_density,
     speed_of_sound |-> e.atmo.speed_of_sound,
     drag_reference_scale |-> IF e.external_reference_mode
                              THEN BCE_EXTERNAL_REFERENCE_DRAG_SCALE
                              ELSE BCE_DEFAULT_DRAG_REFERENCE_SCALE,
     target_range_m |-> range_m,
     launch_angle |-> 0,
     coriolis_enabled |-> coriolisParams(e).enabled,
     coriolis_lat |-> coriolisParams(e).lat,
     azimuth |-> coriolisParams(e).azimuth]

\* recomputeZero: the outcome of the zero solve goes into the engine.
storeZero(e, angle) ==
    IF isnan(angle)
    THEN [e EXCEPT !.fault_flags = @ \cup {"ZERO_UNSOLVABLE"},
                   !.zero_angle_rad = 0]
    ELSE [e EXCEPT !.zero_angle_rad = angle]

\* recomputeZero as it would be if it cleared the dirty flag and kept the
\* cached angle.
recomputeZeroKeepsAngle(e) == [e EXCEPT !.zero_dirty = FALSE]

\* BCE_Engine::recomputeZero
recomputeZero(e) ==
    IF ~e.has_bullet \/ ~e.has_zero
    THEN [e EXCEPT !.zero_dirty = FALSE, !.zero_angle_rad = 0]
    ELSE IF FLt(e.zero.zero_range_m, 1)
            \/ FGt(e.zero.zero_range_m, BCE_MAX_RANGE_M)
    THEN [e EXCEPT !.zero_dirty = FALSE,
                   !.fault_flags = @ \cup {"ZERO_UNSOLVABLE"},
                   !.zero_angle_rad = 0]
    ELSE storeZero([e EXCEPT !.zero_dirty = FALSE],
                   solveZeroAngle(buildSolverParams(e, e.zero.zero_range_m),
                                  e.zero.zero_range_m))

\* The exits as they would be if they zero-filled the solution before
\* writing the three fields.
publishZeroFilled(e, m) ==
    [e EXCEPT !.solution = [SolutionZero EXCEPT !.solution_mode = m,
                                                !.fault_flags = e.fault_flags,
                                                !.defaults_active = e.diag_flags]]

\* The three fields every exit of evaluateState / computeSolution writes.
publish(e, m) ==
    [e EXCEPT !.solution.solution_mode = m,
              !.solution.fault_flags = e.fault_flags,
              !.solution.defaults_active = e.diag_flags]

\* computeSolution, from the solver's result on: the fault exit of an
\* invalid result, else the solution fields.
populate(e, result) ==
    IF ~result.valid
    THEN publish([e EXCEPT !.fault_flags = @ \cup {"ZERO_UNSOLVABLE"},
                           !.mode = "FAULT"], "FAULT")
    ELSE
    LET range   == e.lrf_range_m
        sight_h == IF e.has_zero THEN e.zero.sight_height_mm * 1000 ELSE 0
        zero_range_m == IF e.has_zero /\ FGt(e.zero.zero_range_m, 0)
                        THEN e.zero.zero_range_m ELSE range
        sight_line_drop == sight_h - (sight_h * range) \div zero_range_m
        relative_drop   == result.drop_at_target - sight_line_drop
        drop_moa == IF range > 0
                    THEN 0 - ((relative_drop \div range) * 344) \div 1000
                    ELSE 0
    IN [publish(e, "SOLUTION_READY") EXCEPT
           !.solution.hold_elevation_moa =
               drop_moa + result.coriolis_elev_moa
                 + e.boresight.vertical_moa + e.reticle.vertical_moa,
           !.solution.hold_windage_moa =
               result.coriolis_wind_moa
                 + e.boresight.horizontal_moa + e.reticle.horizontal_moa,
           !.solution.coriolis_windage_moa = result.coriolis_wind_moa,
           !.solution.coriolis_elevation_moa = result.coriolis_elev_moa,
           !.solution.range_m = range,
           !.solution.tof_ms = result.tof_ms,
           !.solution.velocity_at_target_ms = result.velocity_at_target_ms]

\* computeSolution, once the zero is settled: the fault exit of an unsolved
\* zero, else the trajectory to the filtered range.
solveHeld(e) ==
    IF "ZERO_UNSOLVABLE" \in e.fault_flags
    THEN publish([e EXCEPT !.mode = "FAULT"], "FAULT")
    ELSE populate(e, integrate(
             [buildSolverParams(e, e.lrf_range_filtered_m) EXCEPT
                 !.launch_angle = e.zero_angle_rad
                                    + activeQ(e.ahrs).pitch * 10000]))

\* BCE_Engine::computeSolution
computeSolution(e) ==
    IF e.zero_dirty THEN solveHeld(recomputeZero(e)) ELSE solveHeld(e)

\* The staleness test as it would be if a held range never aged.
lrfNeverStale(e, now_us) == FALSE

\* evaluateState: the staleness test of a held range.
lrfStale(e, now_us) ==
    e.has_range /\ now_us > e.lrf_timestamp_us + BCE_LRF_STALE_US

\* evaluateState: the fault bitmap, for the engine with has_range settled.
faultBits(e) ==
    (IF ~e.has_range THEN {"NO_RANGE"} ELSE {})
    \cup (IF ~e.has_bullet THEN {"NO_BULLET"} ELSE {})
    \cup (IF e.has_bullet /\ e.bullet.muzzle_velocity_ms < 1
          THEN {"NO_MV"} ELSE {})
    \cup (IF e.has_bullet /\ e.bullet.bc < 1 THEN {"NO_BC"} ELSE {})
    \cup (IF e.has_bullet /\ e.has_zero
             /\ (FLt(e.zero.zero_range_m, 1)
                 \/ FGt(e.zero.zero_range_m, BCE_MAX_RANGE_M))
          THEN {"ZERO_UNSOLVABLE"} ELSE {})
    \cup (IF ~isStable(e.ahrs) THEN {"AHRS_UNSTABLE"} ELSE {})
    \cup (IF e.atmo.had_invalid_input \/ e.had_invalid_sensor_input
          THEN {"SENSOR_INVALID"} ELSE {})

\* evaluateState: the diagnostic bitmap.
diagBits(e, stale) ==
    e.atmo.diag_flags
    \cup (IF stale THEN {"LRF_STALE"} ELSE {})
    \cup (IF ~e.has_latitude THEN {"CORIOLIS_DISABLED"} ELSE {})
    \cup (IF e.mag.is_disturbed THEN {"MAG_SUPPRESSED"} ELSE {})
    \cup (IF ~e.wind_is_set THEN {"DEFAULT_WIND"} ELSE {})

\* evaluateState: the data a solution needs.
canCompute(e) ==
    e.has_range /\ e.has_bullet
    /\ e.bullet.muzzle_velocity_ms > 1 /\ e.bullet.bc > 1

\* evaluateState as it would be if a stale range stayed held.
dropStaleKeepsRange(e, now_us) == e

\* evaluateState: a stale range is dropped before the faults are read.
dropStale(e, now_us) == [e EXCEPT !.has_range = @ /\ ~lrfStale(e, now_us)]

\* evaluateState: the mode, for the engine with both bitmaps settled.
decideMode(e) ==
    IF e.fault_flags \cap HardFaults # {}
    THEN publish([e EXCEPT !.mode = "FAULT"], "FAULT")
    ELSE IF canCompute(e)
    THEN [computeSolution(e) EXCEPT !.mode = "SOLUTION_READY"]
    ELSE publish([e EXCEPT !.mode = "IDLE"], "IDLE")

\* BCE_Engine::evaluateState
evaluateState(e, now_us) ==
    decideMode([dropStale(e, now_us) EXCEPT
                   !.fault_flags = faultBits(dropStale(e, now_us)),
                   !.diag_flags = diagBits(e, lrfStale(e, now_us))])

\* The filter's time step as it would be without the two clamps.
imuDtUnclamped(e, f) ==
    IF ~e.first_update /\ f.timestamp_us > e.last_imu_timestamp_us
    THEN f.timestamp_us - e.last_imu_timestamp_us
    ELSE 10000

\* update, step 1: the time step dt handed to the attitude filter, in us.
imuDt(e, f) ==
    LET delta == f.timestamp_us - e.last_imu_timestamp_us
    IN IF ~e.first_update /\ f.timestamp_us > e.last_imu_timestamp_us
       THEN (IF delta > 100000 THEN 100000
             ELSE IF delta < 100 THEN 100 ELSE delta)
       ELSE 10000

\* update, step 1: the IMU and magnetometer path.
imuPath(e, f) ==
    IF ~f.imu_valid THEN e
    ELSE
    LET imu_finite == isfinite(f.accel_x) /\ isfinite(f.accel_z)
                      /\ isfinite(f.gyro)
        dt == imuDt(e, f)
        mag_finite == isfinite(f.mag)
        cal     == magApply(e.mag, f.mag)
        applied == f.mag_valid /\ mag_finite
        use_mag == applied /\ ~cal.is_disturbed
        m       == IF applied THEN cal.m ELSE f.mag
        e1 == [e EXCEPT
                 !.had_invalid_sensor_input =
                     @ \/ ~imu_finite \/ (f.mag_valid /\ ~mag_finite),
                 !.first_update = FALSE,
                 !.last_imu_timestamp_us = f.timestamp_us,
                 !.last_gyro = IF imu_finite THEN f.gyro ELSE @,
                 !.mag.is_disturbed =
                     IF applied THEN cal.is_disturbed ELSE @]
    IN IF imu_finite
       THEN [e1 EXCEPT !.ahrs = ahrsUpdate(e.ahrs, f.accel_x, f.accel_z,
                                           f.gyro, m, use_mag, dt)]
       ELSE e1

\* The barometer path as it would be if it read the humidity payload without
\* looking at baro_humidity_valid.
baroPathAnyHumidity(e, f) ==
    IF ~f.baro_valid THEN e
    ELSE
    LET a == updateFromBaro(e.atmo, f.baro_pressure_pa, f.baro_temperature_c,
                            f.baro_humidity)
    IN [e EXCEPT !.atmo = [a EXCEPT !.zero_recompute_hint = FALSE],
                 !.zero_dirty = @ \/ a.zero_recompute_hint]

\* The barometer path as it would be if it cleared the atmosphere's hint
\* without dirtying the zero.
baroPathDropsHint(e, f) ==
    IF ~f.baro_valid THEN e
    ELSE
    LET humidity == IF f.baro_humidity_valid THEN f.baro_humidity ELSE -1
        a == updateFromBaro(e.atmo, f.baro_pressure_pa, f.baro_temperature_c,
                            humidity)
    IN [e EXCEPT !.atmo = [a EXCEPT !.zero_recompute_hint = FALSE]]

\* update, step 2: the barometer path.
baroPath(e, f) ==
    IF ~f.baro_valid THEN e
    ELSE
    LET humidity == IF f.baro_humidity_valid THEN f.baro_humidity ELSE -1
        a == updateFromBaro(e.atmo, f.baro_pressure_pa, f.baro_temperature_c,
                            humidity)
    IN [e EXCEPT !.atmo = [a EXCEPT !.zero_recompute_hint = FALSE],
                 !.zero_dirty = @ \/ a.zero_recompute_hint]

\* The acceptance test as it would be if it did not look at the confidence.
lrfAcceptsAnyConfidence(f) ==
    f.lrf_valid /\ isfinite(f.lrf_range_m) /\ f.lrf_range_m > 0
    /\ f.lrf_range_m <= BCE_MAX_RANGE_M

\* The acceptance test of the rangefinder path.
lrfAccepts(f) ==
    LET range_valid == isfinite(f.lrf_range_m) /\ f.lrf_range_m > 0
                       /\ f.lrf_range_m <= BCE_MAX_RANGE_M
        confidence  == f.lrf_confidence
        confidence_provided == FGt(confidence, 0)
        confidence_in_range == isfinite(confidence) /\ confidence >= 0
                               /\ confidence <= 100
        confidence_valid == ~confidence_provided
                            \/ (confidence_in_range
                                /\ confidence >= BCE_LRF_MIN_CONFIDENCE)
    IN f.lrf_valid /\ range_valid /\ confidence_valid

\* update, step 3: the rangefinder path.
lrfPath(e, f) ==
    IF ~f.lrf_valid THEN e
    ELSE
    LET confidence_provided == FGt(f.lrf_confidence, 0)
        confidence_in_range == isfinite(f.lrf_confidence)
                               /\ f.lrf_confidence >= 0
                               /\ f.lrf_confidence <= 100
        e1 == [e EXCEPT !.had_invalid_sensor_input =
                   @ \/ ~isfinite(f.lrf_range_m)
                     \/ (confidence_provided /\ ~confidence_in_range)]
    IN IF lrfAccepts(f)
       THEN [e1 EXCEPT
               !.lrf_range_filtered_m =
                   IF ~e.has_range THEN f.lrf_range_m
                   ELSE (BCE_LRF_FILTER_ALPHA * f.lrf_range_m
                         + (100 - BCE_LRF_FILTER_ALPHA) * @) \div 100,
               !.lrf_range_m = f.lrf_range_m,
               !.lrf_timestamp_us = f.lrf_timestamp_us,
               !.lrf_quaternion = activeQ(e.ahrs),
               !.has_range = TRUE]
       ELSE e1

\* update, steps 1-3: the engine as evaluateState finds it.
ingest(e, f) ==
    lrfPath(baroPath(imuPath(
        [e EXCEPT !.had_invalid_sensor_input = FALSE], f), f), f)

\* BCE_Engine::update with a non-null frame
update(e, f) == evaluateState(ingest(e, f), f.timestamp_us)

\* BCE_Engine::setBulletProfile
setBulletProfile(e, profile) ==
    [e EXCEPT !.bullet = profile, !.has_bullet = TRUE, !.zero_dirty = TRUE]

\* BCE_Engine::setZeroConfig
setZeroConfig(e, config) ==
    [e EXCEPT !.zero = config, !.has_zero = TRUE, !.zero_dirty = TRUE]

\* BCE_Engine::setWindManual (WindCorrection::setWind).  The winds of the
\* model are calm (0 m/s), which WindCorrection::decompose turns into no
\* head wind and no cross wind.
setWindManual(e, speed_ms, heading_deg) ==
    [e EXCEPT !.wind_is_set = TRUE, !.wind_speed_ms = speed_ms,
              !.wind_heading_deg = heading_deg]

\* setLatitude as it would be if it refreshed the diagnostic bitmap itself.
setLatitudeRefreshingDiag(e, latitude_deg) ==
    IF isnan(latitude_deg)
    THEN [e EXCEPT !.has_latitude = FALSE,
                   !.diag_flags = @ \cup {"CORIOLIS_DISABLED"}]
    ELSE [e EXCEPT !.latitude_deg = latitude_deg, !.has_latitude = TRUE,
                   !.diag_flags = @ \ {"CORIOLIS_DISABLED"}]

\* BCE_Engine::setLatitude, in whole degrees
setLatitude(e, latitude_deg) ==
    IF isnan(latitude_deg)
    THEN [e EXCEPT !.has_latitude = FALSE]
    ELSE [e EXCEPT !.latitude_deg = latitude_deg, !.has_latitude = TRUE]

\* setDefaultOverrides: the latitude and the wind of the overrides.
overrideLatitude(e, defaults) ==
    IF defaults.use_latitude THEN setLatitude(e, defaults.latitude_deg) ELSE e

overrideWind(e, defaults) ==
    IF defaults.use_wind
    THEN setWindManual(e, defaults.wind_speed_ms, defaults.wind_heading_deg)
    ELSE e

\* BCE_Engine::setDefaultOverrides with a non-null pointer
setDefaultOverrides(e, defaults) ==
    [overrideWind(overrideLatitude(
         [e EXCEPT !.overrides = defaults, !.has_overrides = TRUE,
                   !.atmo = applyDefaults(e.atmo, defaults)],
         defaults), defaults)
     EXCEPT !.zero_dirty = TRUE]

\* BCE_Engine::setIMUBias: a null array stands for a zero bias.  NullPtr is
\* the null pointer; a non-null pointer is the one-element sequence of what
\* it points to.
NullPtr == <<>>

\* setIMUBias as it would be if a null array left the stored bias alone.
setIMUBiasIgnoringNull(e, accel_bias, gyro_bias) ==
    [e EXCEPT
        !.ahrs.accel_bias = IF accel_bias = NullPtr THEN @ ELSE accel_bias[1],
        !.ahrs.gyro_bias  = IF gyro_bias = NullPtr THEN @ ELSE gyro_bias[1]]

setIMUBias(e, accel_bias, gyro_bias) ==
    [e EXCEPT
        !.ahrs.accel_bias = IF accel_bias = NullPtr THEN 0 ELSE accel_bias[1],
        !.ahrs.gyro_bias  = IF gyro_bias = NullPtr THEN 0 ELSE gyro_bias[1]]

\* BCE_Engine::setMagCalibration: a null hard iron stands for zero, a null
\* soft iron for the identity.
setMagCalibration(e, hard_iron, soft_iron) ==
    [e EXCEPT
        !.mag.hard_iron = IF hard_iron = NullPtr THEN 0 ELSE hard_iron[1],
        !.mag.soft_iron = IF soft_iron = NullPtr THEN 100 ELSE soft_iron[1]]

\* BCE_Engine::setBoresightOffset
setBoresightOffset(e, vertical_moa, horizontal_moa) ==
    [e EXCEPT !.boresight = [vertical_moa |-> vertical_moa,
                             horizontal_moa |-> horizontal_moa]]

\* BCE_Engine::setReticleOffset
setReticleOffset(e, vertical_moa, horizontal_moa) ==
    [e EXCEPT !.reticle = [vertical_moa |-> vertical_moa,
                           horizontal_moa |-> horizontal_moa]]

\* BCE_Engine::calibrateGyro
calibrateGyro(e) == [e EXCEPT !.ahrs.gyro_bias = e.last_gyro]

\* BCE_Engine::setAHRSAlgorithm
setAHRSAlgorithm(e, algo) == [e EXCEPT !.ahrs.algorithm = algo]

\* BCE_Engine::setMagDeclination, in whole degrees
setMagDeclination(e, declination_deg) ==
    [e EXCEPT !.mag.declination_deg = declination_deg]

\* BCE_Engine::setExternalReferenceMode
setExternalReferenceMode(e, enabled) ==
    [e EXCEPT !.external_reference_mode = enabled]

\* BCE_Engine::getSolution: what a non-null out receives.
getSolution(e) == e.solution

\* BCE_Engine::calibrateBaro
calibrateBaro(e) ==
    [e EXCEPT !.atmo = atmoCalibrateBaro(e.atmo), !.zero_dirty = TRUE]

\* The calls that take a pointer, with the pointer as their argument.
\* BCE_Engine::setBulletProfile
setBulletProfilePtr(e, profile) ==
    IF profile = NullPtr THEN e ELSE setBulletProfile(e, profile[1])

\* BCE_Engine::setZeroConfig
setZeroConfigPtr(e, config) ==
    IF config = NullPtr THEN e ELSE setZeroConfig(e, config[1])

\* BCE_Engine::setDefaultOverrides
setDefaultOverridesPtr(e, defaults) ==
    IF defaults = NullPtr THEN e ELSE setDefaultOverrides(e, defaults[1])

\* BCE_SetBoresightOffset
setBoresightOffsetPtr(e, offset) ==
    IF offset = NullPtr THEN e
    ELSE setBoresightOffset(e, offset[1].vertical_moa,
                            offset[1].horizontal_moa)

\* BCE_Engine::update
updatePtr(e, frame) == IF frame = NullPtr THEN e ELSE update(e, frame[1])

\* BCE_Engine::getSolution: the engine and the caller's buffer afterwards;
\* out is NullPtr or points to the buffer's present content.
getSolutionPtr(e, out) ==
    [engine |-> e, out |-> IF out = NullPtr THEN out ELSE <<getSolution(e)>>]

\* ------------------------------------------------------------------------
\* Inputs
\* ------------------------------------------------------------------------
\* Frame and rangefinder timestamps: the staleness limit and both sides of it.
Times == {0, BCE_LRF_STALE_US, BCE_LRF_STALE_US + 1}

\* A frame at rest: IMU valid and steady under gravity, nothing else valid.
BaseFrame(t) ==
    [timestamp_us |-> t,
     accel_x |-> 0, accel_z |-> 981, gyro |-> 0, imu_valid |-> TRUE,
     mag |-> 0, mag_valid |-> FALSE,
     baro_pressure_pa |-> 0, baro_temperature_c |-> 0, baro_humidity |-> 0,
     baro_valid |-> FALSE, baro_humidity_valid |-> FALSE,
     lrf_range_m |-> 0, lrf_timestamp_us |-> 0, lrf_confidence |-> 0,
     lrf_valid |-> FALSE,
     encoder_focal_length_mm |-> 0, encoder_valid |-> FALSE]

\* A frame at rest carrying a rangefinder sample.
LrfFrame(t, range_m, confidence, lrf_t) ==
    [BaseFrame(t) EXCEPT !.lrf_valid = TRUE, !.lrf_range_m = range_m,
                         !.lrf_confidence = confidence,
                         !.lrf_timestamp_us = lrf_t]

\* A frame at rest carrying a barometer reading at 15 degC.
BaroFrame(t, pressure_pa, humidity_valid, humidity) ==
    [BaseFrame(t) EXCEPT !.baro_valid = TRUE,
                         !.baro_pressure_pa = pressure_pa,
                         !.baro_temperature_c = 15,
                         !.baro_humidity_valid = humidity_valid,
                         !.baro_humidity = humidity]

\* The frames of the rangefinder runs, at every time: at rest; two good
\* samples; low confidence; NaN confidence; NaN range; range beyond the
\* maximum; a good sample stamped 0.
RangeFrames ==
    UNION { { BaseFrame(t),
              LrfFrame(t, 500, 0, t), LrfFrame(t, 501, 90, t),
              LrfFrame(t, 500, 30, t), LrfFrame(t, 500, NaN, t),
              LrfFrame(t, NaN, 0, t), LrfFrame(t, 3000, 0, t),
              LrfFrame(t, 500, 0, 0) } : t \in Times }

\* Frames at time 0 that carry a payload on a channel marked invalid.
InvalidPayloadFrames ==
    { [BaseFrame(0) EXCEPT !.imu_valid = FALSE, !.accel_x = NaN,
                           !.accel_z = 1500, !.gyro = PosInf],
      [BaseFrame(0) EXCEPT !.mag = NaN],
      [BaseFrame(0) EXCEPT !.mag = 45],
      [BaseFrame(0) EXCEPT !.baro_pressure_pa = NaN,
                           !.baro_temperature_c = 15,
                           !.baro_humidity = 80],
      [BaseFrame(0) EXCEPT !.baro_pressure_pa = 90000,
                           !.baro_humidity_valid = TRUE,
                           !.baro_humidity = 150],
      BaroFrame(0, 101325, FALSE, 80), BaroFrame(0, 101325, FALSE, NaN),
      [BaseFrame(0) EXCEPT !.lrf_range_m = 500,
                           !.lrf_timestamp_us = BCE_LRF_STALE_US],
      [BaseFrame(0) EXCEPT !.lrf_range_m = NaN, !.lrf_confidence = 150],
      [BaseFrame(0) EXCEPT !.encoder_focal_length_mm = NaN],
      [BaseFrame(0) EXCEPT !.encoder_focal_length_mm = 50] }

\* The frames of the sensor runs, at time 0: every channel with good and
\* with non-finite or out-of-range payloads.
SensorFrames ==
    { BaseFrame(0),
      [BaseFrame(0) EXCEPT !.accel_x = NaN],
      [BaseFrame(0) EXCEPT !.gyro = PosInf],
      [BaseFrame(0) EXCEPT !.imu_valid = FALSE],
      [BaseFrame(0) EXCEPT !.mag_valid = TRUE, !.mag = 45],
      [BaseFrame(0) EXCEPT !.mag_valid = TRUE, !.mag = 90],
      [BaseFrame(0) EXCEPT !.mag_valid = TRUE, !.mag = NaN],
      [BaseFrame(0) EXCEPT !.imu_valid = FALSE, !.mag_valid = TRUE,
                           !.mag = NaN],
      BaroFrame(0, 101325, FALSE, 0), BaroFrame(0, NaN, FALSE, 0),
      BaroFrame(0, 101325, TRUE, NaN), BaroFrame(0, 90000, TRUE, 150),
      LrfFrame(0, 500, 0, 0), LrfFrame(0, 500, NaN, 0),
      LrfFrame(0, NaN, 0, 0), LrfFrame(0, 500, 150, 0),
      LrfFrame(0, PosInf, 100, 0) }
    \cup InvalidPayloadFrames

\* The frames of the configuration runs: at rest, a NaN on the IMU, an
\* accepted range and a range of low confidence.
ConfigFrames ==
    { BaseFrame(0),
      [BaseFrame(0) EXCEPT !.accel_x = NaN],
      LrfFrame(0, 500, 0, 0),
      LrfFrame(0, 500, 30, 0) }

Bullet(bc, mv) ==
    [bc |-> bc, muzzle_velocity_ms |-> mv, barrel_length_in |-> 24,
     mv_adjustment_factor |-> 0]

\* A usable bullet; one that reaches the target but drops too far to be
\* zeroed; one too slow to fly (below BCE_MIN_VELOCITY); one at the
\* muzzle-velocity threshold; one without muzzle velocity; one without BC.
GoodBullet == Bullet(500, 800)

Bullets == { GoodBullet, Bullet(500, 60), Bullet(500, 2), Bullet(500, 1),
             Bullet(500, 0), Bullet(0, 800) }

GoodZero == [zero_range_m |-> 100, sight_height_mm |-> 50]

ZeroConfigs == { GoodZero, [zero_range_m |-> 0, sight_height_mm |-> 50] }

Overrides == { [OverridesZero EXCEPT !.use_altitude = TRUE,
                                     !.altitude_m = 1500] }

\* ------------------------------------------------------------------------
\* The state machine: the static engine of bce_api.cpp and its C API
\* ------------------------------------------------------------------------
VARIABLES engine

vars == <<engine>>

\* The engine as every client first sees it: constructed, then BCE_Init.
Init == engine = init(EngineConstructed)

BCE_Init == engine' = init(engine)

BCE_Update(F) == \E f \in F : engine' = update(engine, f)

BCE_SetBulletProfile(B) ==
    \E profile \in B : engine' = setBulletProfile(engine, profile)

BCE_SetZeroConfig(Z) ==
    \E config \in Z : engine' = setZeroConfig(engine, config)

BCE_SetDefaultOverrides ==
    \E defaults \in Overrides : engine' = setDefaultOverrides(engine, defaults)

BCE_CalibrateBaro == engine' = calibrateBaro(engine)

\* Configuration runs: every bullet, zero, override and calibration.
Next ==
    \/ BCE_Init
    \/ BCE_Update(ConfigFrames)
    \/ BCE_SetBulletProfile(Bullets)
    \/ BCE_SetZeroConfig(ZeroConfigs)
    \/ BCE_SetDefaultOverrides
    \/ BCE_CalibrateBaro

Spec == Init /\ [][Next]_vars

\* Rangefinder runs: every rangefinder sample and timestamp.
NextRange ==
    \/ BCE_Init
    \/ BCE_Update(RangeFrames)
    \/ BCE_SetBulletProfile({GoodBullet})
    \/ BCE_SetZeroConfig({GoodZero})

SpecRange == Init /\ [][NextRange]_vars

\* Sensor runs: every payload of every channel.
NextSensors ==
    \/ BCE_Init
    \/ BCE_Update(SensorFrames)
    \/ BCE_SetBulletProfile({GoodBullet})
    \/ BCE_SetZeroConfig({GoodZero})

SpecSensors == Init /\ [][NextSensors]_vars

\* The attitude algorithms (AHRS_Algorithm).
Algorithms == {"MADGWICK", "MAHONY"}

\* Frames at rest without and with an accepted range of 500 m.
LifecycleFrames == { BaseFrame(0), LrfFrame(0, 500, 0, 0) }

BCE_SetWindManual(H) ==
    \E heading_deg \in H : engine' = setWindManual(engine, 0, heading_deg)

BCE_SetLatitude(L) ==
    \E latitude_deg \in L : engine' = setLatitude(engine, latitude_deg)

BCE_SetAHRSAlgorithm ==
    \E algo \in Algorithms : engine' = setAHRSAlgorithm(engine, algo)

BCE_SetMagDeclination(D) ==
    \E declination_deg \in D :
        engine' = setMagDeclination(engine, declination_deg)

\* Lifecycle runs: configuration, updates and re-initialisation.
NextLifecycle ==
    \/ BCE_Init
    \/ BCE_Update(LifecycleFrames)
    \/ BCE_SetBulletProfile({GoodBullet})
    \/ BCE_SetZeroConfig({GoodZero})
    \/ BCE_SetWindManual({0, 90})
    \/ BCE_SetLatitude({45, NaN})
    \/ BCE_SetAHRSAlgorithm

SpecLifecycle == Init /\ [][NextLifecycle]_vars

\* The engine before BCE_Init has ever been called: the static object as
\* constructed.
InitConstructed == engine = EngineConstructed

\* Runs of an engine that is never initialised: every call but BCE_Init.
NextUninit ==
    \/ BCE_Update(LifecycleFrames)
    \/ BCE_SetBulletProfile({GoodBullet})
    \/ BCE_SetZeroConfig({GoodZero})
    \/ BCE_SetWindManual({0})
    \/ BCE_SetLatitude({45})
    \/ BCE_SetDefaultOverrides
    \/ BCE_CalibrateBaro
    \/ BCE_SetAHRSAlgorithm

SpecUninit == InitConstructed /\ [][NextUninit]_vars

\* Pointers for the calls that take one: null, and one object each.
FramePtrs    == { NullPtr, <<BaseFrame(0)>>, <<LrfFrame(0, 500, 0, 0)>> }
BulletPtrs   == { NullPtr, <<GoodBullet>> }
ZeroPtrs     == { NullPtr, <<GoodZero>> }
OverridePtrs == { NullPtr } \cup { <<defaults>> : defaults \in Overrides }
OffsetPtrs   == { NullPtr, <<[vertical_moa |-> 150, horizontal_moa |-> -50]>> }
BiasPtrs     == { NullPtr, <<1>> }
HardIronPtrs == { NullPtr, <<5>> }
SoftIronPtrs == { NullPtr, <<110>> }

BCE_UpdatePtr ==
    \E frame \in FramePtrs : engine' = updatePtr(engine, frame)

BCE_SetBulletProfilePtr ==
    \E profile \in BulletPtrs : engine' = setBulletProfilePtr(engine, profile)

BCE_SetZeroConfigPtr ==
    \E config \in ZeroPtrs : engine' = setZeroConfigPtr(engine, config)

BCE_SetDefaultOverridesPtr ==
    \E defaults \in OverridePtrs :
        engine' = setDefaultOverridesPtr(engine, defaults)

BCE_SetIMUBias ==
    \E accel_bias \in BiasPtrs, gyro_bias \in BiasPtrs :
        engine' = setIMUBias(engine, accel_bias, gyro_bias)

BCE_SetMagCalibration ==
    \E hard_iron \in HardIronPtrs, soft_iron \in SoftIronPtrs :
        engine' = setMagCalibration(engine, hard_iron, soft_iron)

BCE_SetBoresightOffset ==
    \E offset \in OffsetPtrs : engine' = setBoresightOffsetPtr(engine, offset)

BCE_SetReticleMechanicalOffset ==
    \E vertical_moa \in {25} :
        engine' = setReticleOffset(engine, vertical_moa, 0)

BCE_CalibrateGyro == engine' = calibrateGyro(engine)

BCE_SetExternalReferenceMode ==
    \E enabled \in BOOLEAN :
        engine' = setExternalReferenceMode(engine, enabled)

\* BCE_GetSolution reads; the engine is as before.
BCE_GetSolution ==
    \E out \in { NullPtr, <<SolutionZero>> } :
        engine' = getSolutionPtr(engine, out).engine

\* Setter runs: the setters and calibrations that take values.
NextSetters ==
    \/ BCE_Init
    \/ BCE_Update(LifecycleFrames)
    \/ BCE_SetBulletProfile({GoodBullet})
    \/ BCE_SetZeroConfig({GoodZero})
    \/ BCE_SetWindManual({0})
    \/ BCE_SetLatitude({45, NaN})
    \/ BCE_SetReticleMechanicalOffset
    \/ BCE_CalibrateBaro
    \/ BCE_CalibrateGyro
    \/ BCE_SetAHRSAlgorithm
    \/ BCE_SetMagDeclination({90})
    \/ BCE_SetExternalReferenceMode

SpecSetters == Init /\ [][NextSetters]_vars

\* Pointer runs: the calls that take a pointer, null pointers included.
NextPointers ==
    \/ BCE_Init
    \/ BCE_UpdatePtr
    \/ BCE_SetBulletProfilePtr
    \/ BCE_SetZeroConfigPtr
    \/ BCE_SetDefaultOverridesPtr
    \/ BCE_SetIMUBias
    \/ BCE_SetMagCalibration
    \/ BCE_SetBoresightOffset
    \/ BCE_GetSolution

SpecPointers == Init /\ [][NextPointers]_vars

\* The frames of the atmosphere runs: at rest; barometer readings without
\* humidity, with humidity in range, above range and NaN; a NaN pressure; a
\* humidity payload on a frame whose barometer is not valid.
AtmoFrames ==
    { BaseFrame(0),
      BaroFrame(0, 101325, FALSE, 0),
      BaroFrame(0, 90000, TRUE, 80),
      BaroFrame(0, 90000, TRUE, 150),
      BaroFrame(0, 90000, TRUE, NaN),
      BaroFrame(0, NaN, FALSE, 0),
      [BaseFrame(0) EXCEPT !.baro_humidity_valid = TRUE,
                           !.baro_humidity = 80] }

\* Overrides of one channel each, and one that overrides nothing.
AtmoOverrides ==
    { OverridesZero,
      [OverridesZero EXCEPT !.use_altitude = TRUE, !.altitude_m = 1500],
      [OverridesZero EXCEPT !.use_pressure = TRUE, !.pressure_pa = 95000],
      [OverridesZero EXCEPT !.use_temperature = TRUE, !.temperature_c = 25],
      [OverridesZero EXCEPT !.use_humidity = TRUE,
                            !.humidity_fraction = 30] }

BCE_SetDefaultOverridesOf(O) ==
    \E defaults \in O : engine' = setDefaultOverrides(engine, defaults)

\* Atmosphere runs: every barometer payload and every override.
NextAtmo ==
    \/ BCE_Init
    \/ BCE_Update(AtmoFrames)
    \/ BCE_SetDefaultOverridesOf(AtmoOverrides)

SpecAtmo == Init /\ [][NextAtmo]_vars

\* Zero configurations with the range valid, zero, beyond the maximum and
\* NaN.
ZeroRangeConfigs ==
    { [zero_range_m |-> z, sight_height_mm |-> 50] :
          z \in {100, 0, BCE_MAX_RANGE_M + 1, NaN} }

\* Zero-range runs: every zero range with a bullet that can be zeroed and
\* one that cannot.
NextZero ==
    \/ BCE_Init
    \/ BCE_Update(LifecycleFrames)
    \/ BCE_SetBulletProfile({GoodBullet, Bullet(500, 60)})
    \/ BCE_SetZeroConfig(ZeroRangeConfigs)

SpecZero == Init /\ [][NextZero]_vars

\* Barometer readings of 900 hPa and of the standard pressure.
CalibrationFrames ==
    { BaroFrame(0, 90000, FALSE, 0),
      BaroFrame(0, BCE_STD_PRESSURE_PA, FALSE, 0) }

\* Repeated calibration moves the offset without limit; the runs stop
\* calibrating once it is beyond MaxBaroOffsetPa.
MaxBaroOffsetPa == 25000

BCE_CalibrateBaroWithin(limit) ==
    /\ Abs(engine.atmo.baro_offset_pa) <= limit
    /\ engine' = calibrateBaro(engine)

\* Calibration runs: barometer frames and field calibrations of the
\* barometer.
NextBaro ==
    \/ BCE_Init
    \/ BCE_Update(CalibrationFrames \cup {BaseFrame(0)})
    \/ BCE_CalibrateBaroWithin(MaxBaroOffsetPa)

SpecBaro == Init /\ [][NextBaro]_vars

\* The frames of the drift runs: at rest, an accepted range, and barometer
\* readings 100 Pa apart from the standard pressure down; one step moves
\* the BC factor by 0.0010 and the density by 0.0012 kg/m^3.
DriftFrames ==
    { BaseFrame(0), LrfFrame(0, 500, 0, 0) }
    \cup { BaroFrame(0, BCE_STD_PRESSURE_PA - k * 100, FALSE, 0) : k \in 0..3 }

\* Drift runs: a configured engine under slowly changing pressure.
NextDrift ==
    \/ BCE_Init
    \/ BCE_Update(DriftFrames)
    \/ BCE_SetBulletProfile({GoodBullet})
    \/ BCE_SetZeroConfig({GoodZero})

SpecDrift == Init /\ [][NextDrift]_vars

\* ------------------------------------------------------------------------
\* Properties
\* ------------------------------------------------------------------------
\* The engine as evaluateState's mode decision finds it after frame f.
settled(e, f) == dropStale(ingest(e, f), f.timestamp_us)

\* Frame f takes the engine past the hard-fault exit and into the compute
\* step.
reachesCompute(e, f) ==
    /\ faultBits(settled(e, f)) \cap HardFaults = {}
    /\ canCompute(settled(e, f))

hardFaultMeansFault(e) ==
    e.fault_flags \cap HardFaults # {} => e.mode = "FAULT"

\* C1: after every update with a non-null frame, a hard-fault bit in the
\* fault bitmap (NO_RANGE, NO_BULLET, NO_MV, NO_BC, AHRS_UNSTABLE,
\* ZERO_UNSOLVABLE) means the mode is FAULT, also when the bit was raised in
\* the compute step by a failed zero solve or a failed integrate.
C1_HardFaultForcesFault ==
    \A f \in ConfigFrames : hardFaultMeansFault(update(engine, f))

\* C2: in every state reachable after init, the solution_mode field of the
\* solution equals the mode.
C2_SolutionModeMirrorsMode == engine.solution.solution_mode = engine.mode

\* The zero solve fails for the configuration of e: the solver returns
\* unsolvable for an in-range zero distance.
zeroFails(e) ==
    /\ e.has_bullet /\ e.has_zero
    /\ e.zero.zero_range_m >= 1 /\ e.zero.zero_range_m <= BCE_MAX_RANGE_M
    /\ isnan(solveZeroAngle(buildSolverParams(e, e.zero.zero_range_m),
                            e.zero.zero_range_m))

zeroFaultPublished(e) ==
    "ZERO_UNSOLVABLE" \in e.fault_flags /\ e.mode = "FAULT"

\* C3: once the zero solve has failed for the current bullet, zero and
\* atmosphere, every later update with that configuration unchanged and a
\* range held (and nothing else at fault) sets ZERO_UNSOLVABLE and ends in
\* FAULT.
C3_ZeroFailurePersists ==
    \A f \in ConfigFrames :
        (~engine.zero_dirty /\ zeroFails(engine) /\ reachesCompute(engine, f))
            => zeroFaultPublished(update(engine, f))

sensorInvalidAloneIsReady(e) ==
    e.fault_flags = {"SENSOR_INVALID"} => e.mode = "SOLUTION_READY"

\* C4: an update that leaves SENSOR_INVALID as the only fault bit ends with
\* mode SOLUTION_READY (and the bit still set).
C4_SensorInvalidAloneIsReady ==
    \A f \in ConfigFrames : sensorInvalidAloneIsReady(update(engine, f))

staleDropped(e) ==
    /\ ~e.has_range
    /\ "LRF_STALE" \in e.diag_flags
    /\ "NO_RANGE" \in e.fault_flags
    /\ e.mode # "SOLUTION_READY"

\* m is the engine after the frame's channels are taken in, e2 after the
\* whole update.
staleRangeDropped(e, f, m, e2) ==
    /\ (m.has_range /\ f.timestamp_us > m.lrf_timestamp_us + BCE_LRF_STALE_US)
           => staleDropped(e2)
    /\ (~e.has_range /\ ~m.has_range) => e2.mode # "SOLUTION_READY"

\* C5: an update whose frame timestamp exceeds the timestamp of the held
\* range by more than 2 000 000 us drops the range, sets LRF_STALE and
\* NO_RANGE and ends in a mode other than SOLUTION_READY; and while no range
\* is held, an update that accepts no rangefinder sample does not end in
\* SOLUTION_READY.
C5_StaleRangeDropped ==
    \A f \in RangeFrames :
        staleRangeDropped(engine, f, ingest(engine, f), update(engine, f))

\* C5 witness: a held range has been dropped as stale.
C5_Witness ==
    /\ "LRF_STALE" \in engine.diag_flags
    /\ ~engine.has_range /\ engine.lrf_range_m > 0
    /\ engine.has_bullet /\ isStable(engine.ahrs)
    /\ engine.mode = "FAULT"

\* The acceptance condition as the claim states it.
sampleAcceptable(f) ==
    /\ f.lrf_valid
    /\ isfinite(f.lrf_range_m)
    /\ f.lrf_range_m > 0 /\ f.lrf_range_m <= BCE_MAX_RANGE_M
    /\ \/ FLe(f.lrf_confidence, 0)
       \/ FGe(f.lrf_confidence, BCE_LRF_MIN_CONFIDENCE)
          /\ FLe(f.lrf_confidence, 100)

\* m, the engine after the channels of f are taken in, holds the sample of f.
sampleTaken(e, f, m) ==
    /\ m.has_range
    /\ m.lrf_range_m = f.lrf_range_m
    /\ m.lrf_range_filtered_m =
          IF ~e.has_range THEN f.lrf_range_m
          ELSE (BCE_LRF_FILTER_ALPHA * f.lrf_range_m
                + (100 - BCE_LRF_FILTER_ALPHA) * e.lrf_range_filtered_m)
                   \div 100
    /\ m.lrf_timestamp_us = f.lrf_timestamp_us
    /\ m.lrf_quaternion = activeQ(m.ahrs)

sampleIgnored(e, m) ==
    /\ m.has_range = e.has_range
    /\ m.lrf_range_m = e.lrf_range_m
    /\ m.lrf_range_filtered_m = e.lrf_range_filtered_m
    /\ m.lrf_timestamp_us = e.lrf_timestamp_us
    /\ m.lrf_quaternion = e.lrf_quaternion

\* C6: update takes a frame's rangefinder sample if and only if lrf_valid is
\* set, the range is finite with 0 < r <= 2500 m, and the confidence is
\* unprovided (<= 0) or within [0.5, 1]; any other sample leaves the held
\* range, filtered range, timestamp, snapshot and has_range as they were.
C6_AcceptIffAcceptable ==
    \A f \in RangeFrames :
        IF sampleAcceptable(f)
        THEN sampleTaken(engine, f, ingest(engine, f))
        ELSE sampleIgnored(engine, ingest(engine, f))

\* A sample the rangefinder path must turn away: range not finite, not
\* positive or beyond the maximum, or a confidence above 0 that is below the
\* minimum or above 1.
rejected(f) ==
    /\ f.lrf_valid
    /\ \/ ~isfinite(f.lrf_range_m)
       \/ f.lrf_range_m <= 0
       \/ f.lrf_range_m > BCE_MAX_RANGE_M
       \/ FGt(f.lrf_confidence, 0) /\ FLt(f.lrf_confidence, BCE_LRF_MIN_CONFIDENCE)
       \/ FGt(f.lrf_confidence, 100)

noRangeFault(e) ==
    ~e.has_range /\ "NO_RANGE" \in e.fault_flags /\ e.mode = "FAULT"

\* C7: while no range is held, an update whose frame carries no rangefinder
\* sample or a rejected one (range out of bounds or not finite, confidence
\* in (0, 0.5) or above 1) ends with no range held, NO_RANGE set and mode
\* FAULT, whatever the bullet, zero and attitude.
C7_RejectedNeverEstablishRange ==
    \A f \in ConfigFrames \cup RangeFrames :
        (~engine.has_range /\ (~f.lrf_valid \/ rejected(f)))
            => noRangeFault(update(engine, f))

\* C7 witness: an engine with a bullet, a zero and a stable attitude that
\* never held a range is in FAULT with NO_RANGE, and a low-confidence sample
\* leaves it so.
C7_Witness ==
    /\ engine.has_bullet /\ engine.has_zero /\ isStable(engine.ahrs)
    /\ engine.lrf_range_m = 0
    /\ noRangeFault(engine) /\ engine.fault_flags = {"NO_RANGE"}
    /\ rejected(LrfFrame(0, 500, 30, 0))
    /\ noRangeFault(update(engine, LrfFrame(0, 500, 30, 0)))

\* Frame f carries a non-finite value on a channel it marks valid.
nonFiniteOnValid(f) ==
    \/ f.imu_valid /\ (~isfinite(f.accel_x) \/ ~isfinite(f.accel_z)
                       \/ ~isfinite(f.gyro))
    \/ f.mag_valid /\ ~isfinite(f.mag)
    \/ f.baro_valid /\ (~isfinite(f.baro_pressure_pa)
                        \/ ~isfinite(f.baro_temperature_c))
    \/ f.baro_valid /\ f.baro_humidity_valid /\ ~isfinite(f.baro_humidity)
    \/ f.lrf_valid /\ (~isfinite(f.lrf_range_m) \/ ~isfinite(f.lrf_confidence))

\* The last good state of each channel survives frame f: e before the
\* update, m after the channels of f are taken in.
lastGoodKept(e, f, m) ==
    /\ (f.imu_valid /\ (~isfinite(f.accel_x) \/ ~isfinite(f.accel_z)
                        \/ ~isfinite(f.gyro)))
           => m.ahrs = e.ahrs
    /\ isfinite(e.ahrs.madgwick_q.pitch) => isfinite(m.ahrs.madgwick_q.pitch)
    /\ (f.lrf_valid /\ (~isfinite(f.lrf_range_m)
                        \/ ~isfinite(f.lrf_confidence)))
           => sampleIgnored(e, m)
    /\ isfinite(m.atmo.pressure_pa) /\ isfinite(m.atmo.temperature_c)
    /\ isfinite(m.atmo.humidity)

flaggedAndKept(e, f, m, e2) ==
    nonFiniteOnValid(f) =>
        ("SENSOR_INVALID" \in e2.fault_flags /\ lastGoodKept(e, f, m))

\* C8: a non-finite value on a channel the frame marks valid (IMU,
\* magnetometer, barometer pressure / temperature / humidity, rangefinder
\* range and confidence) makes the update set SENSOR_INVALID, and the last
\* good attitude, held range and stored atmosphere are not overwritten by it.
C8_NonFiniteFlaggedAndKept ==
    \A f \in SensorFrames :
        flaggedAndKept(engine, f, ingest(engine, f), update(engine, f))

\* Frames f and g agree on the timestamp, on every validity flag and on the
\* payload of every channel marked valid.
agree(f, g) ==
    /\ f.timestamp_us = g.timestamp_us
    /\ f.imu_valid = g.imu_valid /\ f.mag_valid = g.mag_valid
    /\ f.baro_valid = g.baro_valid
    /\ f.baro_humidity_valid = g.baro_humidity_valid
    /\ f.lrf_valid = g.lrf_valid /\ f.encoder_valid = g.encoder_valid
    /\ f.imu_valid => (f.accel_x = g.accel_x /\ f.accel_z = g.accel_z
                       /\ f.gyro = g.gyro)
    /\ f.mag_valid => f.mag = g.mag
    /\ f.baro_valid => (f.baro_pressure_pa = g.baro_pressure_pa
                        /\ f.baro_temperature_c = g.baro_temperature_c)
    /\ f.baro_humidity_valid => f.baro_humidity = g.baro_humidity
    /\ f.lrf_valid => (f.lrf_range_m = g.lrf_range_m
                       /\ f.lrf_confidence = g.lrf_confidence
                       /\ f.lrf_timestamp_us = g.lrf_timestamp_us)
    /\ f.encoder_valid
           => f.encoder_focal_length_mm = g.encoder_focal_length_mm

sameOutcome(e, f, g) == agree(f, g) => update(e, f) = update(e, g)

\* C9: for every engine state and every two frames that agree on the
\* timestamp, the validity flags and the payload of every valid channel,
\* update produces the same engine state (and so the same solution, mode,
\* fault and diagnostic outputs).
C9_InvalidPayloadIgnored ==
    \A f, g \in SensorFrames : sameOutcome(engine, f, g)

\* A frame at rest with a payload on the barometer channel it marks invalid.
StrayBaroFrame ==
    [BaseFrame(0) EXCEPT !.baro_pressure_pa = NaN, !.baro_temperature_c = 15,
                         !.baro_humidity = 80]

\* C9 witness: an engine publishing a solution, which two different frames
\* that agree take to one and the same state.
C9_Witness ==
    /\ engine.mode = "SOLUTION_READY"
    /\ StrayBaroFrame # BaseFrame(0) /\ agree(BaseFrame(0), StrayBaroFrame)
    /\ update(engine, BaseFrame(0)) = update(engine, StrayBaroFrame)
    /\ update(engine, StrayBaroFrame).mode = "SOLUTION_READY"

\* The zero angle a fresh solve gives for the configuration of e.
freshZero(angle) == IF isnan(angle) THEN 0 ELSE angle

expectedZero(e) ==
    IF ~e.has_bullet \/ ~e.has_zero THEN 0
    ELSE IF e.zero.zero_range_m < 1 \/ e.zero.zero_range_m > BCE_MAX_RANGE_M
    THEN 0
    ELSE freshZero(solveZeroAngle(buildSolverParams(e, e.zero.zero_range_m),
                                  e.zero.zero_range_m))

zeroResolved(m, e2) == ~e2.zero_dirty /\ e2.zero_angle_rad = expectedZero(m)

\* C10 as stated: after any of the four setters, the very next update ends
\* with the dirty flag clear and the zero angle that of a fresh solve.
C10_NextUpdateResolves ==
    \A f \in ConfigFrames :
        /\ \A profile \in Bullets :
               zeroResolved(ingest(setBulletProfile(engine, profile), f),
                            update(setBulletProfile(engine, profile), f))
        /\ \A config \in ZeroConfigs :
               zeroResolved(ingest(setZeroConfig(engine, config), f),
                            update(setZeroConfig(engine, config), f))
        /\ \A defaults \in Overrides :
               zeroResolved(ingest(setDefaultOverrides(engine, defaults), f),
                            update(setDefaultOverrides(engine, defaults), f))
        /\ zeroResolved(ingest(calibrateBaro(engine), f),
                        update(calibrateBaro(engine), f))

\* m is the dirty engine after the channels of f are taken in, e2 after the
\* whole update.
resolvedIfComputed(e, f, m, e2) ==
    IF reachesCompute(e, f)
    THEN zeroResolved(m, e2)
    ELSE e2.zero_dirty /\ e2.zero_angle_rad = e.zero_angle_rad

settersDirty(e) ==
    /\ \A profile \in Bullets : setBulletProfile(e, profile).zero_dirty
    /\ \A config \in ZeroConfigs : setZeroConfig(e, config).zero_dirty
    /\ \A defaults \in Overrides : setDefaultOverrides(e, defaults).zero_dirty
    /\ calibrateBaro(e).zero_dirty

\* C10, amended: each of the four setters leaves the zero dirty; an update of
\* a dirty engine that reaches the compute step (no hard fault, a range
\* held, muzzle velocity and BC above their thresholds) re-solves the zero
\* for the configuration it finds and ends with the dirty flag clear and the
\* cached angle fresh (0 when the solve fails); an update that does not
\* reach the compute step leaves the zero dirty and the cached angle as it
\* was.
C10_ResolvesWhenComputing ==
    /\ settersDirty(engine)
    /\ engine.zero_dirty =>
           \A f \in ConfigFrames :
               resolvedIfComputed(engine, f, ingest(engine, f),
                                  update(engine, f))

\* C10 witness: an update has re-solved the zero of a configured engine.
C10_Witness ==
    /\ ~engine.zero_dirty /\ engine.has_bullet /\ engine.has_zero
    /\ engine.zero_angle_rad # 0
    /\ engine.mode = "SOLUTION_READY"

nothingPending(e) == ~e.zero_dirty /\ ~e.atmo.zero_recompute_hint

\* C11: whenever an update performs a zero solve attempt (the zero is dirty
\* and the update reaches the compute step), nothing remains pending when it
\* returns: the dirty flag is clear and the atmosphere holds no recompute
\* hint that would dirty the zero again.
C11_SolveLeavesNothingPending ==
    \A f \in ConfigFrames :
        (ingest(engine, f).zero_dirty /\ reachesCompute(engine, f))
            => nothingPending(update(engine, f))

\* What the first init() leaves: IDLE, empty bitmaps, no bullet, zero, range
\* or latitude, no manual wind, the default attitude algorithm, zero IMU
\* biases, the ISA atmosphere without baro offset, a dirty zero.
firstInitState(e) ==
    /\ e.mode = "IDLE" /\ e.fault_flags = {} /\ e.diag_flags = {}
    /\ ~e.has_bullet /\ ~e.has_zero /\ ~e.has_range /\ ~e.has_latitude
    /\ ~e.wind_is_set
    /\ e.ahrs.algorithm = "MADGWICK"
    /\ e.ahrs.accel_bias = 0 /\ e.ahrs.gyro_bias = 0
    /\ e.atmo = AtmoInit
    /\ e.zero_dirty

\* C12: init() after any sequence of operations returns the engine to the
\* state the first init() produced: IDLE, empty bitmaps, no bullet, zero,
\* range or latitude, manual wind unset, the default attitude algorithm, zero
\* biases, the ISA atmosphere and a dirty zero.
C12_InitRestoresFirstState == firstInitState(init(engine))

\* C13: before init() has ever been called, every other API call (setters,
\* calibrations, update) leaves the engine state unchanged, and get_mode
\* returns IDLE.
C13_NoEffectBeforeInit ==
    engine = EngineConstructed /\ engine.mode = "IDLE"

\* What get_mode, get_fault_flags, get_diag_flags and get_solution return.
readers(e) ==
    [mode |-> e.mode, fault_flags |-> e.fault_flags,
     diag_flags |-> e.diag_flags, solution |-> getSolution(e)]

\* The values the value-taking setters are tried with.
SetterLatitudes == {45, -45, 0, NaN}
SetterOffsets   == {0, 25, -50}

\* The readers return after setter result s what they return on e.
keepsOutputs(e, s) == readers(s) = readers(e)

\* C14: no configuration or calibration setter changes what get_mode,
\* get_fault_flags, get_diag_flags or get_solution return.
C14_SettersKeepOutputs ==
    /\ \A profile \in BulletPtrs \cup { <<b>> : b \in Bullets } :
           keepsOutputs(engine, setBulletProfilePtr(engine, profile))
    /\ \A config \in ZeroPtrs \cup { <<z>> : z \in ZeroConfigs } :
           keepsOutputs(engine, setZeroConfigPtr(engine, config))
    /\ \A defaults \in OverridePtrs :
           keepsOutputs(engine, setDefaultOverridesPtr(engine, defaults))
    /\ \A heading_deg \in {0, 90} :
           keepsOutputs(engine, setWindManual(engine, 0, heading_deg))
    /\ \A latitude_deg \in SetterLatitudes :
           keepsOutputs(engine, setLatitude(engine, latitude_deg))
    /\ \A accel_bias \in BiasPtrs, gyro_bias \in BiasPtrs :
           keepsOutputs(engine, setIMUBias(engine, accel_bias, gyro_bias))
    /\ \A hard_iron \in HardIronPtrs, soft_iron \in SoftIronPtrs :
           keepsOutputs(engine,
                        setMagCalibration(engine, hard_iron, soft_iron))
    /\ \A offset \in OffsetPtrs :
           keepsOutputs(engine, setBoresightOffsetPtr(engine, offset))
    /\ \A v \in SetterOffsets, h \in SetterOffsets :
           keepsOutputs(engine, setReticleOffset(engine, v, h))
    /\ keepsOutputs(engine, calibrateBaro(engine))
    /\ keepsOutputs(engine, calibrateGyro(engine))
    /\ \A algo \in Algorithms :
           keepsOutputs(engine, setAHRSAlgorithm(engine, algo))
    /\ \A declination_deg \in {0, 90} :
           keepsOutputs(engine, setMagDeclination(engine, declination_deg))
    /\ \A enabled \in BOOLEAN :
           keepsOutputs(engine, setExternalReferenceMode(engine, enabled))

\* A latitude was set after the last update: the solution is ready and the
\* bitmap still carries CORIOLIS_DISABLED.
C14_Witness ==
    /\ engine.mode = "SOLUTION_READY"
    /\ engine.has_latitude
    /\ "CORIOLIS_DISABLED" \in engine.diag_flags

\* A valid barometer frame supplies pressure and temperature; it supplies
\* humidity when the humidity is marked valid and is a value from 0 up.
suppliesBaro(f) == f.baro_valid

suppliesHumidity(f) ==
    f.baro_valid /\ f.baro_humidity_valid /\ FGe(f.baro_humidity, 0)

\* The default flags of engine e2, reached from e by an update with frame f:
\* a channel's flag is set exactly when neither a barometer frame (f
\* included) nor an override has supplied the channel since init.
defaultsReported(e, f, e2) ==
    /\ ("DEFAULT_PRESSURE" \in e2.diag_flags)
         <=> ~(e.atmo.has_baro_pressure \/ e.atmo.has_override_pressure
               \/ suppliesBaro(f))
    /\ ("DEFAULT_TEMP" \in e2.diag_flags)
         <=> ~(e.atmo.has_baro_temperature \/ e.atmo.has_override_temp
               \/ suppliesBaro(f))
    /\ ("DEFAULT_HUMIDITY" \in e2.diag_flags)
         <=> ~(e.atmo.has_baro_humidity \/ e.atmo.has_override_humidity
               \/ suppliesHumidity(f))
    /\ ("DEFAULT_ALTITUDE" \in e2.diag_flags)
         <=> ~e.atmo.has_override_altitude

\* The supply record of the atmosphere says what the overrides applied since
\* init have used and is empty after init.
overridesRecorded(e, defaults, e2) ==
    /\ e2.atmo.has_override_pressure
         <=> (e.atmo.has_override_pressure \/ defaults.use_pressure)
    /\ e2.atmo.has_override_temp
         <=> (e.atmo.has_override_temp \/ defaults.use_temperature)
    /\ e2.atmo.has_override_humidity
         <=> (e.atmo.has_override_humidity \/ defaults.use_humidity)
    /\ e2.atmo.has_override_altitude
         <=> (e.atmo.has_override_altitude \/ defaults.use_altitude)
    /\ e2.atmo.has_baro_pressure = e.atmo.has_baro_pressure
    /\ e2.atmo.has_baro_temperature = e.atmo.has_baro_temperature
    /\ e2.atmo.has_baro_humidity = e.atmo.has_baro_humidity

noSupply(a) ==
    /\ ~a.has_baro_pressure /\ ~a.has_baro_temperature /\ ~a.has_baro_humidity
    /\ ~a.has_override_pressure /\ ~a.has_override_temp
    /\ ~a.has_override_humidity /\ ~a.has_override_altitude

nullBiasIsZero(e) ==
    \A other \in BiasPtrs :
        /\ setIMUBias(e, NullPtr, other).ahrs.accel_bias = 0
        /\ setIMUBias(e, other, NullPtr).ahrs.gyro_bias = 0

\* The null arrays of set_mag_calibration stand for a zero hard-iron vector
\* and the identity soft-iron matrix.
nullCalibrationIsIdentity(e) ==
    /\ \A soft_iron \in SoftIronPtrs :
           setMagCalibration(e, NullPtr, soft_iron).mag.hard_iron
               = MagInit.hard_iron
    /\ \A hard_iron \in HardIronPtrs :
           setMagCalibration(e, hard_iron, NullPtr).mag.soft_iron
               = MagInit.soft_iron

\* C16: a null pointer passed to set_bullet, set_zero,
\* set_default_overrides, set_boresight, update or get_solution leaves the
\* whole engine state unchanged, the dirty flag and the reader outputs
\* included, whereas a null array passed to set_imu_bias or
\* set_mag_calibration sets the bias or the hard-iron vector to zero and the
\* soft-iron matrix to the identity.
C16_NullPointers ==
    /\ setBulletProfilePtr(engine, NullPtr) = engine
    /\ setZeroConfigPtr(engine, NullPtr) = engine
    /\ setDefaultOverridesPtr(engine, NullPtr) = engine
    /\ setBoresightOffsetPtr(engine, NullPtr) = engine
    /\ updatePtr(engine, NullPtr) = engine
    /\ getSolutionPtr(engine, NullPtr) = [engine |-> engine, out |-> NullPtr]
    /\ nullBiasIsZero(engine)
    /\ nullCalibrationIsIdentity(engine)

\* A configured engine with a ready solution, a dirty-free zero, a gyro bias
\* and a hard-iron vector, whose accelerometer bias and soft-iron matrix
\* were passed as null.
C16_Witness ==
    /\ engine.mode = "SOLUTION_READY" /\ ~engine.zero_dirty
    /\ engine.has_zero /\ engine.has_overrides
    /\ engine.boresight # OffsetZero
    /\ engine.ahrs.gyro_bias = 1 /\ engine.ahrs.accel_bias = 0
    /\ engine.mag.hard_iron = 5 /\ engine.mag.soft_iron = 100

\* The Coriolis outputs of engine e2, reached from e by an update: the flag
\* is set exactly when the latitude of e is unset, and a solution assembled
\* by that update with the latitude unset carries no Coriolis correction.
coriolisFollowsLatitude(e, e2) ==
    /\ ("CORIOLIS_DISABLED" \in e2.diag_flags) <=> ~e.has_latitude
    /\ e2.has_latitude = e.has_latitude
    /\ (~e.has_latitude /\ e2.solution.solution_mode = "SOLUTION_READY")
         => /\ e2.solution.coriolis_elevation_moa = 0
            /\ e2.solution.coriolis_windage_moa = 0

\* C17: after every update CORIOLIS_DISABLED is set exactly when the latitude
\* is unset (never set since init, or last set to NaN), and every solution
\* assembled while the latitude is unset has coriolis_elevation_moa = 0 and
\* coriolis_windage_moa = 0.
C17_CoriolisFollowsLatitude ==
    /\ ~init(engine).has_latitude
    /\ ~setLatitude(engine, NaN).has_latitude
    /\ setLatitude(engine, 45).has_latitude
    /\ \A f \in LifecycleFrames :
           coriolisFollowsLatitude(engine, update(engine, f))

\* A solution assembled after the latitude, once 45 degrees with the heading
\* at 90, was set to NaN: the flag is up and the corrections are zero.
C17_Witness ==
    /\ ~engine.has_latitude /\ engine.latitude_deg = 45
    /\ engine.mag.declination_deg = 90
    /\ engine.solution.solution_mode = "SOLUTION_READY"
    /\ "CORIOLIS_DISABLED" \in engine.diag_flags
    /\ engine.solution.coriolis_windage_moa = 0
    /\ engine.solution.coriolis_elevation_moa = 0
    /\ engine.solution.tof_ms > 0

\* A bullet is set and the configured zero range is not within
\* 1 <= zero_range <= BCE_MAX_RANGE_M.
invalidZeroRange(e) ==
    /\ e.has_bullet /\ e.has_zero
    /\ ~(FGe(e.zero.zero_range_m, 1)
          /\ FLe(e.zero.zero_range_m, BCE_MAX_RANGE_M))

\* The update of e with f that gave e2 ended in FAULT with ZERO_UNSOLVABLE
\* and without a solve attempt: it stopped before the compute step and left
\* the dirty flag and the cached zero angle alone.
zeroFaultedUnsolved(e, f, e2) ==
    /\ e2.mode = "FAULT"
    /\ "ZERO_UNSOLVABLE" \in e2.fault_flags
    /\ ~reachesCompute(e, f)
    /\ e2.zero_dirty = e.zero_dirty
    /\ e2.zero_angle_rad = e.zero_angle_rad

\* With the zero range made valid, an update of e with f that reaches the
\* solve and solves the zero ends without the fault.
faultRemoved(e, f, m) ==
    (reachesCompute(e, f)
       /\ ~isnan(solveZeroAngle(buildSolverParams(m, m.zero.zero_range_m),
                                m.zero.zero_range_m)))
        => "ZERO_UNSOLVABLE" \notin update(e, f).fault_flags

\* C18: while a bullet profile is set and the configured zero range does not
\* satisfy 1 <= zero_range <= 2500 m, every update ends with mode FAULT and
\* ZERO_UNSOLVABLE set, and no solve is attempted; setting a valid zero range
\* afterwards removes the fault on the next update that reaches a solve.
C18_InvalidZeroRangeFaults ==
    invalidZeroRange(engine) =>
        \A f \in LifecycleFrames :
            /\ zeroFaultedUnsolved(engine, f, update(engine, f))
            /\ faultRemoved(setZeroConfig(engine, GoodZero), f,
                            ingest(setZeroConfig(engine, GoodZero), f))

\* The relative drop at target range R = zero_range_m of a bullet launched
\* at `angle`, in um: the drop d from the bore line less the sight-line drop
\* h - h * R / Z.
relativeDropAtZero(params, zero_range_m, angle) ==
    integrate([params EXCEPT !.launch_angle = angle,
                             !.target_range_m = zero_range_m]).drop_at_target
      - (params.sight_height * 1000
           - (params.sight_height * 1000 * zero_range_m) \div zero_range_m)

\* A zero angle that was solved is a fixed point: the relative drop at the
\* zero range is at most 1 mm.
zeroIsFixedPoint(params, zero_range_m, angle) ==
    ~isnan(angle) =>
        Abs(relativeDropAtZero(params, zero_range_m, angle))
            <= BCE_ZERO_TOLERANCE_M

fixedPointOf(params, zero_range_m) ==
    zeroIsFixedPoint(params, zero_range_m,
                     solveZeroAngle(params, zero_range_m))

\* C19: the solved zero angle is a fixed point of the hold computation: for
\* any configuration whose zero solve succeeds (zero range Z, sight height
\* h), integrating with that angle at target range R = Z yields a relative
\* drop d - (h - h * R / Z) of magnitude at most 1 mm.
C19_ZeroIsFixedPoint ==
    (engine.has_bullet /\ engine.has_zero)
        => fixedPointOf(buildSolverParams(engine, engine.zero.zero_range_m),
                        engine.zero.zero_range_m)

\* A frame f read by engine e is stored as the standard sea-level pressure.
readsStandard(e, f) == update(e, f).atmo.pressure_pa = BCE_STD_PRESSURE_PA

\* Engine e has just ingested frame f: after one calibrate_baro, and after
\* two in a row, the same raw pressure is stored as the standard pressure,
\* and the second call changes nothing the first had set.
calibrationHolds(e, f) ==
    /\ readsStandard(calibrateBaro(e), f)
    /\ readsStandard(calibrateBaro(calibrateBaro(e)), f)
    /\ calibrateBaro(calibrateBaro(e)) = calibrateBaro(e)

\* C20: after calibrate_baro() (one call, or several consecutive calls with
\* no baro frame in between), the next valid baro frame carrying the same
\* raw pressure as the last ingested one is stored as exactly 101 325 Pa; in
\* particular calibrate_baro is idempotent.
C20_CalibrationReadsStandard ==
    \A f \in CalibrationFrames : calibrationHolds(update(engine, f), f)

\* The variance of the magnitudes in the ring buffer of ah is below
\* BCE_AHRS_STATIC_THRESHOLD.
lowVariance(ah) ==
    StaticWindow * SumSq(ah.accel_mag_buf)
        - Sum(ah.accel_mag_buf) * Sum(ah.accel_mag_buf)
      < BCE_AHRS_STATIC_THRESHOLD * StaticWindow * StaticWindow

\* The attitude manager ah has been fed fewer than W samples since init
\* (sample_count counts them up to W), or W and more.
stableIffLowVariance(ah) ==
    IF ah.sample_count < StaticWindow
    THEN ~isStable(ah)
    ELSE isStable(ah) <=> lowVariance(ah)

\* C21: counting the IMU samples fed to the attitude manager since init,
\* is_stable() is false while fewer than W samples have arrived, and once W
\* samples have arrived it equals (variance of the last W post-bias
\* acceleration magnitudes < 0.05); in particular W constant samples make
\* is_stable() true.
C21_StableIffLowVariance == stableIffLowVariance(engine.ahrs)

\* Every channel frame f marks valid carries finite values within the range
\* its path accepts (a frame with no valid channel is clean).
cleanFrame(f) ==
    /\ f.imu_valid => (isfinite(f.accel_x) /\ isfinite(f.accel_z)
                       /\ isfinite(f.gyro))
    /\ f.mag_valid => isfinite(f.mag)
    /\ f.baro_valid =>
           /\ FGe(f.baro_pressure_pa, 1000) /\ FLe(f.baro_pressure_pa, 120000)
           /\ FGe(f.baro_temperature_c, -80) /\ FLe(f.baro_temperature_c, 80)
           /\ f.baro_humidity_valid =>
                  (FGe(f.baro_humidity, 0) /\ FLe(f.baro_humidity, 100))
    /\ f.lrf_valid =>
           /\ FGt(f.lrf_range_m, 0) /\ FLe(f.lrf_range_m, BCE_MAX_RANGE_M)
           /\ FGe(f.lrf_confidence, 0) /\ FLe(f.lrf_confidence, 100)

sensorInvalidClear(e) == "SENSOR_INVALID" \notin e.fault_flags

\* C22: SENSOR_INVALID after an update reflects only that update's frame: an
\* update whose frame has every valid channel finite and in range (or has no
\* valid channel at all) leaves SENSOR_INVALID clear, even if an earlier
\* frame was sanitised.
C22_SensorInvalidOfThisFrame ==
    \A f \in SensorFrames :
        cleanFrame(f) => sensorInvalidClear(update(engine, f))

\* The atmosphere a2 differs from a by at least one recompute threshold: in
\* the BC factor, the air density or the speed of sound.
atmosphereMoved(a, a2) ==
    \/ Abs(correctBC(a2, BcOne, BcOne) - correctBC(a, BcOne, BcOne))
           >= BCE_ZERO_RECOMPUTE_BC_FACTOR_DELTA
    \/ Abs(a2.air_density - a.air_density) >= BCE_ZERO_RECOMPUTE_DENSITY_DELTA
    \/ Abs(a2.speed_of_sound - a.speed_of_sound) >= BCE_ZERO_RECOMPUTE_SOS_DELTA

\* The atmosphere of e as updateFromBaro leaves it with the barometer
\* reading of frame f, before the engine consumes the hint.
baroTaken(e, f) ==
    updateFromBaro(e.atmo, f.baro_pressure_pa, f.baro_temperature_c,
                   IF f.baro_humidity_valid THEN f.baro_humidity ELSE -1)

\* a2 is the atmosphere updateFromBaro leaves, m the engine after the
\* channels of f are taken in, e2 the engine after the whole update.
hintPropagated(e, f, a2, m, e2) ==
    (f.baro_valid /\ atmosphereMoved(e.atmo, a2)) =>
        /\ a2.zero_recompute_hint
        /\ ~m.atmo.zero_recompute_hint /\ ~e2.atmo.zero_recompute_hint
        /\ m.zero_dirty
        /\ reachesCompute(e, f) => zeroResolved(m, e2)

\* C23: whenever a valid baro frame changes the atmosphere's BC factor,
\* density or speed of sound by at least its threshold relative to the
\* previous recompute, the atmosphere raises the zero-recompute hint, the
\* same update consumes it (which clears it) and sets the dirty flag, and if
\* that update reaches a solve the zero angle is re-solved before the
\* solution is assembled.
C23_HintPropagated ==
    \A f \in SensorFrames :
        hintPropagated(engine, f, baroTaken(engine, f), ingest(engine, f),
                       update(engine, f))

\* The atmosphere stands at 900 hPa while the last solution was assembled,
\* with a zero solved for it; a barometer frame at the standard pressure
\* moves it by more than a threshold: the update finds the zero dirtied,
\* solves it and assembles a solution.
C23_Witness ==
    /\ engine.atmo.pressure_pa = 90000
    /\ engine.mode = "SOLUTION_READY" /\ ~engine.zero_dirty
    /\ engine.has_zero /\ engine.zero_angle_rad # 0
    /\ reachesCompute(engine, BaroFrame(0, 101325, FALSE, 0))
    /\ atmosphereMoved(engine.atmo,
                       baroTaken(engine, BaroFrame(0, 101325, FALSE, 0)))
    /\ ingest(engine, BaroFrame(0, 101325, FALSE, 0)).zero_dirty
    /\ ~update(engine, BaroFrame(0, 101325, FALSE, 0)).zero_dirty
    /\ update(engine, BaroFrame(0, 101325, FALSE, 0)).solution.solution_mode
          = "SOLUTION_READY"

\* The update of e with f reaches the compute step with a zero configured
\* and dirty, and so solves the zero for the atmosphere it has taken in.
solvesZero(e, f) ==
    e.has_zero /\ reachesCompute(e, f) /\ ingest(e, f).zero_dirty

\* The update of e with f reaches the compute step with the zero clean, and
\* so integrates with the cached zero angle.
keepsZero(e, f) == reachesCompute(e, f) /\ ~ingest(e, f).zero_dirty

\* a0 is the atmosphere a zero was solved with by a first update, e1 the
\* engine after it; the updates with f2 and then f3 keep that zero, and the
\* solve of the last one succeeds in atmosphere a3.
zeroKept(e1, f2, e2, f3, e3) ==
    /\ keepsZero(e1, f2) /\ keepsZero(e2, f3)
    /\ e3.solution.solution_mode = "SOLUTION_READY"

zeroAtmosphereClose(e, f1, f2, f3) ==
    (solvesZero(e, f1)
       /\ zeroKept(update(e, f1), f2, update(update(e, f1), f2), f3,
                   update(update(update(e, f1), f2), f3)))
        => ~atmosphereMoved(ingest(e, f1).atmo,
                            update(update(update(e, f1), f2), f3).atmo)

\* C24: at every successful solve, the air density, speed of sound and BC
\* factor used for the trajectory differ from the values the cached zero
\* angle was solved with by less than the recompute thresholds, for any
\* sequence of baro frames, including a run of frames each changing the
\* atmosphere by less than a threshold.
C24_ZeroAtmosphereClose ==
    \A f1, f2, f3 \in DriftFrames : zeroAtmosphereClose(engine, f1, f2, f3)

\* The integration loop entered with its counter at iteration0: the state of
\* integrateToRange before an iteration, for a bullet still at the muzzle.
trajectoryFrom(params, range_m, iteration0) ==
    trajectory(params, range_m, 0, 0, params.muzzle_velocity_ms,
               (params.muzzle_velocity_ms * params.launch_angle) \div 10,
               0, iteration0)

\* The loop counters the integration is entered with: a fresh one, and the
\* last two values below the bound and the bound itself.
LoopEntries ==
    { 0, BCE_MAX_SOLVER_ITERATIONS - 2, BCE_MAX_SOLVER_ITERATIONS - 1,
      BCE_MAX_SOLVER_ITERATIONS }

\* The target ranges of the integrations, in m.
SolveRanges == { 100, 500, BCE_MAX_RANGE_M }

\* The integration that ended in r stopped within the step bound, for one of
\* its three reasons, and reports the target unreached exactly when x is
\* short of it.
stoppedProperly(r, range_m) ==
    /\ r.steps <= BCE_MAX_SOLVER_ITERATIONS
    /\ \/ r.x >= range_m
       \/ r.velocity_ms < BCE_MIN_VELOCITY
       \/ r.steps = BCE_MAX_SOLVER_ITERATIONS
    /\ isnan(r.drop) <=> r.x < range_m

\* The zero search that ended in z began at most BCE_ZERO_MAX_ITERATIONS
\* iterations, and made the integration after the loop only when it had run
\* through them all.
zeroBounded(z) ==
    /\ z.iterations <= BCE_ZERO_MAX_ITERATIONS
    /\ z.final => z.iterations = BCE_ZERO_MAX_ITERATIONS

integrationsStop(params) ==
    \A range_m \in SolveRanges, iteration0 \in LoopEntries :
        stoppedProperly(trajectoryFrom(params, range_m, iteration0), range_m)

zeroSolveStops(params, zero_range_m) ==
    zeroBounded(zeroSearch(params, zero_range_m, 0 - ZERO_BRACKET,
                           ZERO_BRACKET, 0, params.launch_angle, 0))

DtTimes ==
    UNION { { t, t + 50, t + 100, t + 5000, t + 100000, t + 100001 } :
                t \in Times } \cup { 2000000000 }

\* IMU frames at those times: a finite sample, a sample with a NaN, and a
\* frame whose IMU channel is not valid.
DtFrames ==
    UNION { { BaseFrame(t),
              [BaseFrame(t) EXCEPT !.accel_x = NaN],
              [BaseFrame(t) EXCEPT !.imu_valid = FALSE] } : t \in DtTimes }

\* dt, in us, is the time step the claim gives for frame f on engine e.
dtAsClaimed(e, f, dt) ==
    /\ dt >= 100 /\ dt <= 100000
    /\ (e.first_update \/ f.timestamp_us <= e.last_imu_timestamp_us)
           => dt = 10000
    /\ (~e.first_update /\ f.timestamp_us > e.last_imu_timestamp_us)
           => /\ f.timestamp_us - e.last_imu_timestamp_us < 100 => dt = 100
              /\ f.timestamp_us - e.last_imu_timestamp_us > 100000
                     => dt = 100000
              /\ (f.timestamp_us - e.last_imu_timestamp_us >= 100
                  /\ f.timestamp_us - e.last_imu_timestamp_us <= 100000)
                     => dt = f.timestamp_us - e.last_imu_timestamp_us

\* m is the engine after the channels of f are taken in: it has seen an IMU
\* frame exactly when e had or f is one, and remembers the timestamp of the
\* last of them.
imuFrameRecorded(e, f, m) ==
    /\ m.first_update = (e.first_update /\ ~f.imu_valid)
    /\ m.last_imu_timestamp_us =
           IF f.imu_valid THEN f.timestamp_us ELSE e.last_imu_timestamp_us

\* C26: for any sequence of frame timestamps, including equal, backward and
\* arbitrarily large forward jumps, the dt handed to the attitude filter lies
\* in [1e-4, 0.1] s: it is 0.01 s on the first IMU frame after init and
\* whenever the timestamp does not advance past the previous IMU frame's,
\* and otherwise it is the timestamp delta clamped to [1e-4, 0.1] s.
C26_DtClamped ==
    /\ init(engine).first_update
    /\ \A f \in DtFrames :
           /\ dtAsClaimed(engine, f, imuDt(engine, f))
           /\ imuFrameRecorded(engine, f, ingest(engine, f))

\* The previous IMU frame was stamped 2 000 001 us: a frame stamped earlier
\* gets 0.01 s, one 50 us later 1e-4 s, one 5 ms later 5 ms, and one over
\* half an hour later 0.1 s.
C26_Witness ==
    /\ ~engine.first_update
    /\ engine.last_imu_timestamp_us = BCE_LRF_STALE_US + 1
    /\ imuDt(engine, BaseFrame(0)) = 10000
    /\ imuDt(engine, BaseFrame(BCE_LRF_STALE_US + 51)) = 100
    /\ imuDt(engine, BaseFrame(BCE_LRF_STALE_US + 5001)) = 5000
    /\ imuDt(engine, BaseFrame(2000000000)) = 100000

\* m is the engine as computeSolution finds it, e2 the engine after the
\* update: a solution assembled by that update publishes as range_m the
\* range its trajectory was integrated to (the target range of the solver
\* parameters).
rangeConsistent(m, e2) ==
    e2.solution.solution_mode = "SOLUTION_READY" =>
        e2.solution.range_m
            = buildSolverParams(m, m.lrf_range_filtered_m).target_range_m

\* C27: in every solution assembled by a successful solve, the range the
\* trajectory was integrated to (at which TOF, remaining velocity, energy
\* and drop are read) equals the published range_m that is used to convert
\* drop and windage into MOA, for any sequence of accepted LRF samples
\* including ones whose range changes between frames.
C27_RangeConsistent ==
    \A f \in RangeFrames :
        reachesCompute(engine, f)
            => rangeConsistent(ingest(engine, f), update(engine, f))

\* The drag reference scale of the solver parameters engine e builds.
scaleOf(e) == buildSolverParams(e, e.lrf_range_filtered_m).drag_reference_scale

\* The update of e with f1 solves the zero; e2 is the engine after that
\* update and a set_external_reference_mode; the update of e2 with f2, which
\* gives e3, keeps the cached zero and assembles a solution: the trajectory
\* of that solution is integrated with the scale the zero was solved with.
zeroScaleKept(e, f1, e2, f2, e3) ==
    (solvesZero(e, f1) /\ keepsZero(e2, f2)
       /\ e3.solution.solution_mode = "SOLUTION_READY")
        => scaleOf(ingest(e2, f2)) = scaleOf(ingest(e, f1))

\* C28: at every successful solve, the cached zero angle was solved with the
\* same drag reference scale as the one used for that solve's trajectory
\* integration: after set_external_reference_mode changes the mode, the zero
\* angle is re-solved before the next solution is published.
C28_ZeroScaleKept ==
    \A f1, f2 \in LifecycleFrames, enabled \in BOOLEAN :
        zeroScaleKept(
            engine, f1,
            setExternalReferenceMode(update(engine, f1), enabled), f2,
            update(setExternalReferenceMode(update(engine, f1), enabled), f2))

\* Engine e2, reached from e by an update, did not end in SOLUTION_READY or
\* holds a solution that says FAULT or IDLE.
endedUnsolved(e2) ==
    \/ e2.mode \in {"FAULT", "IDLE"}
    \/ e2.solution.solution_mode \in {"FAULT", "IDLE"}

\* The solution of e2 is that of e but for solution_mode, fault_flags and
\* defaults_active, which are the mode and the bitmaps of the update.
onlyFlagsWritten(e, e2) ==
    /\ e2.solution =
           [e.solution EXCEPT
               !.solution_mode = e2.solution.solution_mode,
               !.fault_flags = e2.fault_flags,
               !.defaults_active = e2.diag_flags]
    /\ e2.mode \in {"FAULT", "IDLE"} => e2.solution.solution_mode = e2.mode

numericKept(e, e2) == endedUnsolved(e2) => onlyFlagsWritten(e, e2)

\* C29: an update that ends in FAULT or IDLE overwrites only solution_mode,
\* fault_flags and defaults_active of the stored solution; every numeric
\* field keeps the value written by the last successful solve, or 0 if there
\* has been none since init.
C29_NumericFieldsKept ==
    /\ init(engine).solution = SolutionZero
    /\ \A f \in ConfigFrames : numericKept(engine, update(engine, f))

\* An update has ended in FAULT after a successful solve at 500 m, and one
\* that would end in IDLE follows: the solution still carries the numbers of
\* that solve.
C29_Witness ==
    /\ engine.mode = "FAULT" /\ engine.solution.solution_mode = "FAULT"
    /\ engine.solution.range_m = 500 /\ engine.solution.tof_ms > 0
    /\ engine.solution.hold_elevation_moa # 0
    /\ update(setBulletProfile(engine, Bullet(500, 1)),
              BaseFrame(0)).mode = "IDLE"
    /\ update(setBulletProfile(engine, Bullet(500, 1)),
              BaseFrame(0)).solution.tof_ms = engine.solution.tof_ms

\* e2, the engine after an update of an engine that holds no range with a
\* frame whose sample is not accepted: still no range, NO_RANGE, FAULT, and
\* no LRF_STALE in the bitmap or in the stored solution.
quietAfterStale(g, e2) ==
    ~lrfAccepts(g) =>
        /\ ~e2.has_range
        /\ "NO_RANGE" \in e2.fault_flags
        /\ e2.mode = "FAULT"
        /\ "LRF_STALE" \notin e2.diag_flags
        /\ "LRF_STALE" \notin e2.solution.defaults_active

\* e1 is the engine after the update of e with frame f, m the engine as
\* evaluateState of that update found it.
staleReportedOnce(e, f, m, e1) ==
    /\ "LRF_STALE" \in e1.diag_flags
           <=> (m.has_range
                /\ f.timestamp_us > m.lrf_timestamp_us + BCE_LRF_STALE_US)
    /\ "LRF_STALE" \in e1.diag_flags => ~e1.has_range
    /\ ~e1.has_range =>
           \A g \in RangeFrames : quietAfterStale(g, update(e1, g))

\* C30: LRF_STALE is reported only by the single update that detects
\* staleness; on every following update in which no new rangefinder sample
\* is accepted NO_RANGE stays set and the mode stays FAULT, but LRF_STALE is
\* clear in the diagnostic bitmap.
C30_StaleReportedOnce ==
    \A f \in RangeFrames :
        staleReportedOnce(engine, f, ingest(engine, f), update(engine, f))

\* A range was dropped as stale and a later update without a sample has
\* cleared LRF_STALE while NO_RANGE and FAULT stay.
C30_Witness ==
    /\ ~engine.has_range /\ engine.lrf_range_m > 0
    /\ engine.last_imu_timestamp_us
           > engine.lrf_timestamp_us + BCE_LRF_STALE_US
    /\ "LRF_STALE" \notin engine.diag_flags
    /\ "LRF_STALE" \notin engine.solution.defaults_active
    /\ "NO_RANGE" \in engine.fault_flags
    /\ engine.has_bullet /\ isStable(engine.ahrs)
    /\ engine.mode = "FAULT"

====
